---------------------------- MODULE Spec2Model ----------------------------
(***************************************************************************)
(* A model of the gbam block compressor (gbam_tools/src/compressor.rs) and *)
(* of the read-name tokenizer it drives (gbam_tools/src/tokenizer_encoding)*)
(*                                                                         *)
(* Bytes are integers 0..255.  A byte string (Vec<u8>, &[u8], &str) is a   *)
(* sequence of bytes.  A u32 is a record [hi, lo] of two 16-bit halves, so *)
(* that every u32 value is represented exactly.                            *)
(***************************************************************************)
EXTENDS Integers, Sequences, FiniteSets, TLC

VARIABLES
    thread_num,      \* the argument of Compressor::new
    buf_q,           \* buffer pool channel (buf_tx / buf_rx): a FIFO of Vec<u8>
    compr_q,         \* completion channel (compr_data_tx / compr_data_rx)
    sent,            \* Compressor.sent
    received,        \* Compressor.received
    tasks,           \* the closures spawned by compress_block, in submission order
    caller,          \* where the owner of the Compressor is
    delivered,       \* what get_compr_block has returned to the caller so far
    leftovers,       \* the Vec that finish() builds and returns
    probe            \* input and output of the pure function under check

vars == <<thread_num, buf_q, compr_q, sent, received, tasks, caller,
          delivered, leftovers, probe>>

pipeVars == <<thread_num, buf_q, compr_q, sent, received, tasks, caller,
              delivered, leftovers>>

-----------------------------------------------------------------------------
(* Bytes                                                                   *)

NUL == 0
SPACE == 32
HASH == 35
SLASH == 47
COLON == 58
LETTER_N == 78
LETTER_Y == 89
PIPE == 124

Some(v) == [some |-> TRUE, v |-> v]
None == [some |-> FALSE, v |-> 0]

\* Only({e(x) : x \in {v}}) is e(v) with v evaluated once: a set constructor
\* binds x to the value of v, where LET would re-evaluate v at each use.
Only(S) == CHOOSE v \in S : TRUE

RECURSIVE SplitFrom(_, _, _, _)
SplitFrom(s, delims, i, cur) ==
    IF i > Len(s) THEN <<cur>>
    ELSE IF s[i] \in delims
         THEN <<cur>> \o SplitFrom(s, delims, i + 1, <<>>)
         ELSE SplitFrom(s, delims, i + 1, Append(cur, s[i]))

\* str::split(pattern): the pieces between delimiters, empty pieces included
Split(s0, delims) == Only({SplitFrom(s, delims, 1, <<>>) : s \in {s0}})

\* std::str::from_utf8 on the ASCII subset: a byte >= 0x80 standing alone is
\* not valid UTF-8 (multi-byte sequences are outside the sampled alphabet)
IsUtf8(s) == \A i \in 1..Len(s) : s[i] < 128

\* b'0'..=b'9'
IsDigit(b) == b \in 48..57

DigitValue(b) == b - 48

DigitByte(n) == 48 + n

\* the digits of a decimal literal: Rust's FromStr for unsigned integers
\* accepts one leading '+' (43), rejects '-', the empty string and a lone sign
Unsigned(s) == IF Len(s) > 0 /\ s[1] = 43 THEN Tail(s) ELSE s

WellFormedUInt(ds) == Len(ds) > 0 /\ \A i \in 1..Len(ds) : IsDigit(ds[i])

RECURSIVE AccUInt(_, _, _, _)
AccUInt(ds, i, acc0, max) ==
    Only({ IF i > Len(ds) \/ acc > max THEN acc
           ELSE AccUInt(ds, i + 1, acc * 10 + DigitValue(ds[i]), max)
           : acc \in {acc0} })

\* str::parse::<u8>() and str::parse::<u16>() (max = 255, 65535)
ParseUInt(s, max) ==
    Only({ IF ~WellFormedUInt(ds) THEN [ok |-> FALSE, v |-> 0]
           ELSE Only({ IF v > max THEN [ok |-> FALSE, v |-> 0]
                       ELSE [ok |-> TRUE, v |-> v]
                       : v \in {AccUInt(ds, 1, 0, max)} })
           : ds \in {Unsigned(s)} })

U32(hi, lo) == [hi |-> hi, lo |-> lo]

RECURSIVE AccU32(_, _, _)
AccU32(ds, i, acc0) ==
    Only({ IF i > Len(ds) \/ acc.ovf THEN acc
           ELSE LET lo2 == acc.lo * 10 + DigitValue(ds[i])
                    hi2 == acc.hi * 10 + (lo2 \div 65536)
                IN  AccU32(ds, i + 1,
                       [hi |-> hi2 % 65536, lo |-> lo2 % 65536, ovf |-> hi2 > 65535])
           : acc \in {acc0} })

\* str::parse::<u32>()
ParseU32(s) ==
    Only({ IF ~WellFormedUInt(ds) THEN [ok |-> FALSE, v |-> U32(0, 0)]
           ELSE Only({ IF a.ovf THEN [ok |-> FALSE, v |-> U32(0, 0)]
                       ELSE [ok |-> TRUE, v |-> U32(a.hi, a.lo)]
                       : a \in {AccU32(ds, 1, [hi |-> 0, lo |-> 0, ovf |-> FALSE])} })
           : ds \in {Unsigned(s)} })

RECURSIVE UIntToString(_)
\* u8::to_string / u16::to_string
UIntToString(n) ==
    IF n < 10 THEN <<DigitByte(n)>>
    ELSE Append(UIntToString(n \div 10), DigitByte(n % 10))

RECURSIVE U32ToString(_)
\* u32::to_string, by long division of the two halves
U32ToString(u0) ==
    Only({ LET t == (u.hi % 10) * 65536 + u.lo
           IN  IF u.hi \div 10 = 0 /\ t \div 10 = 0 THEN <<DigitByte(t % 10)>>
               ELSE Append(U32ToString(U32(u.hi \div 10, t \div 10)),
                           DigitByte(t % 10))
           : u \in {u0} })

-----------------------------------------------------------------------------
(* dictionary.rs                                                           *)

U8_TABLE_CAP == 255
U8_TABLE_SINK == 254
UMI_TABLE_CAP == 65535
UMI_TABLE_SINK == 65534

ReadNameDictionaryNew ==
    [instruments |-> <<>>, flowcells |-> <<>>, umis |-> <<>>, indices |-> <<>>,
     instrument_map |-> {}, flowcell_map |-> {}, umi_map |-> {}, index_map |-> {}]

\* HashMap::get on a reverse map, kept as a set of <<key, id>> pairs
MapGet(map, x) ==
    IF \E p \in map : p[1] = x
    THEN Some((CHOOSE p \in map : p[1] = x)[2])
    ELSE None

\* an add_* without the capacity test
Intern_uncapped(table, map, x, cap, sink) ==
    Only({ IF hit.some
           THEN [id |-> hit.v, table |-> table, map |-> map]
           ELSE [id |-> Len(table), table |-> Append(table, x),
                 map |-> map \cup {<<x, Len(table)>>}]
           : hit \in {MapGet(map, x)} })

\* an add_* that pushes without asking the reverse map first
Intern_no_lookup(table, map, x, cap, sink) ==
    IF Len(table) >= cap
    THEN [id |-> sink, table |-> table, map |-> map]
    ELSE [id |-> Len(table), table |-> Append(table, x),
          map |-> map \cup {<<x, Len(table)>>}]

\* an add_* that saturates one entry early, at cap - 1 entries
Intern_early_sink(table, map, x, cap, sink) ==
    Only({ IF hit.some
           THEN [id |-> hit.v, table |-> table, map |-> map]
           ELSE IF Len(table) >= cap - 1
           THEN [id |-> sink, table |-> table, map |-> map]
           ELSE [id |-> Len(table), table |-> Append(table, x),
                 map |-> map \cup {<<x, Len(table)>>}]
           : hit \in {MapGet(map, x)} })

\* the body shared by the four add_* methods
Intern(table, map, x, cap, sink) ==
    Only({ IF hit.some
           THEN [id |-> hit.v, table |-> table, map |-> map]
           ELSE IF Len(table) >= cap
           THEN [id |-> sink, table |-> table, map |-> map]
           ELSE [id |-> Len(table), table |-> Append(table, x),
                 map |-> map \cup {<<x, Len(table)>>}]
           : hit \in {MapGet(map, x)} })

add_instrument(d, x) ==
    Only({ [id |-> r.id,
            dict |-> [d EXCEPT !.instruments = r.table, !.instrument_map = r.map]]
           : r \in {Intern(d.instruments, d.instrument_map, x,
                           U8_TABLE_CAP, U8_TABLE_SINK)} })

add_flowcell(d, x) ==
    Only({ [id |-> r.id,
            dict |-> [d EXCEPT !.flowcells = r.table, !.flowcell_map = r.map]]
           : r \in {Intern(d.flowcells, d.flowcell_map, x,
                           U8_TABLE_CAP, U8_TABLE_SINK)} })

add_umi(d, x) ==
    Only({ [id |-> r.id,
            dict |-> [d EXCEPT !.umis = r.table, !.umi_map = r.map]]
           : r \in {Intern(d.umis, d.umi_map, x, UMI_TABLE_CAP, UMI_TABLE_SINK)} })

add_index(d, x) ==
    Only({ [id |-> r.id,
            dict |-> [d EXCEPT !.indices = r.table, !.index_map = r.map]]
           : r \in {Intern(d.indices, d.index_map, x,
                           U8_TABLE_CAP, U8_TABLE_SINK)} })

\* a get that counts ids from the end of the table
TableGet_from_end(table, id) ==
    IF id < Len(table) THEN Some(table[Len(table) - id]) ELSE None

\* Vec::get(id as usize)
TableGet(table, id) == IF id < Len(table) THEN Some(table[id + 1]) ELSE None

get_instrument(d, id) == TableGet(d.instruments, id)
get_flowcell(d, id) == TableGet(d.flowcells, id)
get_umi(d, id) == TableGet(d.umis, id)
get_index(d, id) == TableGet(d.indices, id)

-----------------------------------------------------------------------------
(* tokenizer.rs                                                            *)

NoToken ==
    [instrument_id |-> 0, run_id |-> U32(0, 0), flowcell_id |-> 0, lane |-> 0,
     tile |-> 0, x_coord |-> U32(0, 0), y_coord |-> U32(0, 0), umi_id |-> None,
     read_num |-> 0, flags |-> 0, index_id |-> None]

ParseErr(d) == [ok |-> FALSE, tok |-> NoToken, dict |-> d]
ParseOk(t, d) == [ok |-> TRUE, tok |-> t, dict |-> d]

\* u32::wrapping_mul(31).wrapping_add(byte) on the two halves
WrappingMul31Add(h, b) ==
    LET lo2 == h.lo * 31 + b
    IN  U32((h.hi * 31 + (lo2 \div 65536)) % 65536, lo2 % 65536)

RECURSIVE HashFrom(_, _, _)
HashFrom(s, i, h0) ==
    Only({ IF i > Len(s) THEN h
           ELSE HashFrom(s, i + 1, WrappingMul31Add(h, s[i]))
           : h \in {h0} })

hash_string(s) == HashFrom(s, 1, U32(0, 0))

parse_flags_from_string(s) ==
    IF s = <<LETTER_Y>> THEN 1
    ELSE IF s = <<LETTER_N>> THEN 0
    ELSE Only({IF p.ok THEN p.v ELSE 0 : p \in {ParseUInt(s, 255)}})

\* the id of an optional component: Some(id) when it was interned
OptId(present, added) == IF present THEN Some(added.id) ELSE None

\* The dictionary is updated as the fields are read: an add made before a
\* later field fails to parse stays in the dictionary.
parse_modern_illumina(d, s) ==
    Only({
      IF Len(parts) < 7 THEN ParseErr(d) ELSE
      Only({
        IF ~run.ok THEN ParseErr(ins.dict) ELSE
        Only({
          IF ~lane.ok \/ ~tile.ok \/ ~x.ok \/ ~y.ok THEN ParseErr(fc.dict) ELSE
          Only({
            Only({
              ParseOk([instrument_id |-> ins.id, run_id |-> run.v,
                       flowcell_id |-> fc.id, lane |-> lane.v, tile |-> tile.v,
                       x_coord |-> x.v, y_coord |-> y.v,
                       umi_id |-> OptId(Len(parts) > 7 /\ parts[8] # <<>>, umi),
                       read_num |-> IF rn.ok THEN rn.v ELSE 1,
                       flags |-> IF Len(parts) > 9
                                 THEN parse_flags_from_string(parts[10]) ELSE 0,
                       index_id |-> OptId(Len(parts) > 10 /\ parts[11] # <<>>, idx)],
                      idx.dict)
              : idx \in {IF Len(parts) > 10 /\ parts[11] # <<>>
                         THEN add_index(umi.dict, parts[11])
                         ELSE [id |-> 0, dict |-> umi.dict]} })
            : umi \in {IF Len(parts) > 7 /\ parts[8] # <<>>
                       THEN add_umi(fc.dict, parts[8])
                       ELSE [id |-> 0, dict |-> fc.dict]},
              rn \in {IF Len(parts) > 8 THEN ParseUInt(parts[9], 255)
                      ELSE [ok |-> FALSE, v |-> 0]} })
          : fc \in {add_flowcell(ins.dict, parts[3])},
            lane \in {ParseUInt(parts[4], 255)},
            tile \in {ParseUInt(parts[5], 65535)},
            x \in {ParseU32(parts[6])},
            y \in {ParseU32(parts[7])} })
        : ins \in {add_instrument(d, parts[1])}, run \in {ParseU32(parts[2])} })
      : parts \in {Split(s, {COLON, SPACE})} })

\* str::find('|'): the position of the first '|' (1-based), 0 when none
RECURSIVE FindFrom(_, _, _)
FindFrom(s, b, i) ==
    IF i > Len(s) THEN 0 ELSE IF s[i] = b THEN i ELSE FindFrom(s, b, i + 1)

\* the suffix is main_parts[1] of the code: what lies between the first '#'
\* and the next one
parse_legacy_illumina(d, s) ==
    Only({
      Only({
        IF Len(parts) # 5 THEN ParseErr(d) ELSE
        Only({
          IF ~lane.ok \/ ~tile.ok \/ ~x.ok \/ ~y.ok THEN ParseErr(ins.dict) ELSE
          Only({
            Only({
              Only({
                ParseOk([instrument_id |-> ins.id, run_id |-> hash_string(parts[1]),
                         flowcell_id |-> 0, lane |-> lane.v, tile |-> tile.v,
                         x_coord |-> x.v, y_coord |-> y.v,
                         umi_id |-> OptId(umi_part # <<>>, umi),
                         read_num |-> 1, flags |-> 0,
                         index_id |-> OptId(index_part # <<>>, idx)],
                        umi.dict)
                : umi \in {IF umi_part # <<>> THEN add_umi(idx.dict, umi_part)
                           ELSE [id |-> 0, dict |-> idx.dict]} })
              : idx \in {IF index_part # <<>> THEN add_index(ins.dict, index_part)
                         ELSE [id |-> 0, dict |-> ins.dict]} })
            : index_part \in {IF umi_pos > 0 THEN SubSeq(suffix, 1, umi_pos - 1)
                              ELSE suffix},
              umi_part \in {IF umi_pos > 0
                            THEN SubSeq(suffix, umi_pos + 1, Len(suffix))
                            ELSE <<>>} })
          : ins \in {add_instrument(d, parts[1])},
            lane \in {ParseUInt(parts[2], 255)},
            tile \in {ParseUInt(parts[3], 65535)},
            x \in {ParseU32(parts[4])},
            y \in {ParseU32(parts[5])},
            suffix \in {IF Len(main_parts) > 1 THEN main_parts[2] ELSE <<>>},
            umi_pos \in {IF Len(main_parts) > 1
                         THEN FindFrom(main_parts[2], PIPE, 1) ELSE 0} })
        : parts \in {Split(main_parts[1], {COLON})} })
      : main_parts \in {Split(s, {HASH})} })

tokenize_single(d, read_name) ==
    IF ~IsUtf8(read_name) THEN ParseErr(d) ELSE
    Only({ IF m.ok THEN m
           ELSE Only({ IF l.ok THEN l ELSE ParseErr(l.dict)
                       : l \in {parse_legacy_illumina(m.dict, read_name)} })
           : m \in {parse_modern_illumina(d, read_name)} })

RECURSIVE LossyFrom(_, _)
LossyFrom(bytes, i) ==
    IF i > Len(bytes) THEN <<>>
    ELSE (IF bytes[i] < 128 THEN <<bytes[i]>> ELSE <<239, 191, 189>>)
         \o LossyFrom(bytes, i + 1)

\* ByteUtils::bytes_to_string_lossy on the sampled alphabet: String::
\* from_utf8_lossy keeps ASCII and puts U+FFFD (EF BF BD) for a byte that
\* cannot stand in UTF-8
bytes_to_string_lossy(bytes) == LossyFrom(bytes, 1)

\* the ParseError built by tokenize_batch: the index and the rendering of
\* the name that format! puts into the message
BatchError(index, name) ==
    [kind |-> "ParseError", index |-> index, name |-> bytes_to_string_lossy(name)]

NoBatchError == [kind |-> "none", index |-> 0, name |-> <<>>]

RECURSIVE BatchSkipFrom(_, _, _, _)
BatchSkipFrom(d, read_names, i, results) ==
    IF i > Len(read_names)
    THEN [ok |-> TRUE, toks |-> results, dict |-> d, failed |-> 0,
          err |-> NoBatchError, processed |-> Len(read_names)]
    ELSE Only({ BatchSkipFrom(r.dict, read_names, i + 1,
                              IF r.ok THEN Append(results, r.tok) ELSE results)
                : r \in {tokenize_single(d, read_names[i])} })

RECURSIVE BatchFrom(_, _, _, _)
\* the loop of tokenize_batch from the i-th name on; processed is
\* total_reads_processed as the call leaves it
BatchFrom(d, read_names, i, results) ==
    IF i > Len(read_names)
    THEN [ok |-> TRUE, toks |-> results, dict |-> d, failed |-> 0,
          err |-> NoBatchError, processed |-> Len(read_names)]
    ELSE Only({ IF r.ok
                THEN Only({ BatchFrom(r.dict, read_names, i + 1, rs)
                            : rs \in {Append(results, r.tok)} })
                ELSE [ok |-> FALSE, toks |-> <<>>, dict |-> r.dict, failed |-> i - 1,
                      err |-> BatchError(i - 1, read_names[i]), processed |-> i]
                : r \in {tokenize_single(d, read_names[i])} })

\* a tokenize_batch that leaves out the names it cannot tokenize
tokenize_batch_lenient(d, read_names) ==
    Only({BatchSkipFrom(d, names, 1, <<>>) : names \in {read_names}})

\* failed is the zero-based index carried by the ParseError
tokenize_batch(d, read_names) ==
    Only({BatchFrom(d, names, 1, <<>>) : names \in {read_names}})

detokenize(d, t) ==
    Only({
      IF ~instrument.some THEN [ok |-> FALSE, name |-> <<>>] ELSE
      Only({
        LET legacy ==
              instrument.v \o coords
              \o (IF t.index_id.some \/ t.umi_id.some THEN <<HASH>> ELSE <<>>)
              \o (IF index.some THEN index.v ELSE <<>>)
              \o (IF umi.some THEN <<PIPE>> \o umi.v ELSE <<>>)
            modern ==
              instrument.v \o <<COLON>> \o U32ToString(t.run_id)
              \o (IF fc.some THEN <<COLON>> \o fc.v ELSE <<>>)
              \o coords
              \o (IF umi.some THEN <<COLON>> \o umi.v ELSE <<>>)
              \o <<COLON>> \o UIntToString(t.read_num)
              \o <<COLON, IF t.flags % 2 = 1 THEN LETTER_Y ELSE LETTER_N>>
              \o (IF index.some THEN <<COLON>> \o index.v ELSE <<>>)
        IN  [ok |-> TRUE, name |-> IF t.flowcell_id = 0 THEN legacy ELSE modern]
        : coords \in {<<COLON>> \o UIntToString(t.lane) \o <<COLON>>
                      \o UIntToString(t.tile) \o <<COLON>>
                      \o U32ToString(t.x_coord) \o <<COLON>>
                      \o U32ToString(t.y_coord)},
          index \in {IF t.index_id.some THEN get_index(d, t.index_id.v) ELSE None},
          umi \in {IF t.umi_id.some THEN get_umi(d, t.umi_id.v) ELSE None},
          fc \in {get_flowcell(d, t.flowcell_id)} })
      : instrument \in {get_instrument(d, t.instrument_id)} })

-----------------------------------------------------------------------------
(* Read names the tokenizer is probed with                                 *)

\* "A", "M1"
SampleInstruments ==
    { <<65>> ,
      <<77, 49>>  }

\* "7", "123"
SampleRuns ==
    { <<55>> ,
      <<49, 50, 51>>  }

\* "FC", "H0"
SampleFlowcells ==
    { <<70, 67>> ,
      <<72, 48>>  }

\* "1", "2"
SampleLanes ==
    { <<49>> ,
      <<50>>  }

\* "", ":ACGT:1:N:ATC", " ACGT:2:Y:ATC", ":ACGT", "::1:N"
SampleTails ==
    { <<>> ,
      <<58, 65, 67, 71, 84, 58, 49, 58, 78, 58, 65, 84, 67>> ,
      <<32, 65, 67, 71, 84, 58, 50, 58, 89, 58, 65, 84, 67>> ,
      <<58, 65, 67, 71, 84>> ,
      <<58, 58, 49, 58, 78>>  }

\* "INSTRUMENT:123:FLOWCELL:1:1234:5678:9012" (test_modern_illumina_format)
TestModernName ==
    <<73, 78, 83, 84, 82, 85, 77, 69, 78, 84, 58, 49, 50, 51, 58, 70, 76, 79, 87, 67, 69, 76, 76, 58, 49, 58, 49, 50, 51, 52, 58, 53, 54, 55, 56, 58, 57, 48, 49, 50>>

\* "HWUSI-EAS566_0007:2:30:18804:9636#0|AGC" (test_legacy_illumina_format)
TestLegacyName ==
    <<72, 87, 85, 83, 73, 45, 69, 65, 83, 53, 54, 54, 95, 48, 48, 48, 55, 58, 50, 58, 51, 48, 58, 49, 56, 56, 48, 52, 58, 57, 54, 51, 54, 35, 48, 124, 65, 71, 67>>

\* "not-a-read-name", "A:x:FC:1:30:56:90", "A:2:30:56:90#AT#GG|C", "M1:2:30:56:90", "A:7:FC:256:30:56:90", "A:07:FC:1:030:4294967295:+9"
OtherNames ==
    { <<110, 111, 116, 45, 97, 45, 114, 101, 97, 100, 45, 110, 97, 109, 101>> ,
      <<65, 58, 120, 58, 70, 67, 58, 49, 58, 51, 48, 58, 53, 54, 58, 57, 48>> ,
      <<65, 58, 50, 58, 51, 48, 58, 53, 54, 58, 57, 48, 35, 65, 84, 35, 71, 71, 124, 67>> ,
      <<77, 49, 58, 50, 58, 51, 48, 58, 53, 54, 58, 57, 48>> ,
      <<65, 58, 55, 58, 70, 67, 58, 50, 53, 54, 58, 51, 48, 58, 53, 54, 58, 57, 48>> ,
      <<65, 58, 48, 55, 58, 70, 67, 58, 49, 58, 48, 51, 48, 58, 52, 50, 57, 52, 57, 54, 55, 50, 57, 53, 58, 43, 57>>  }

\* instrument:run:flowcell:lane:30:5678:9012 followed by a tail
ModernNames ==
    { ins \o <<COLON>> \o run \o <<COLON>> \o fc \o <<COLON>> \o lane
      \o <<58, 51, 48, 58, 53, 54, 55, 56, 58, 57, 48, 49, 50>> \o tail :
        ins \in SampleInstruments, run \in SampleRuns, fc \in SampleFlowcells,
        lane \in SampleLanes, tail \in SampleTails }

\* "M1:2:30:56:90", "HW:255:65535:4294967295:0", "M1:256:30:56:90", "M1:2:30:56"
SampleCoordinateParts ==
    { <<77, 49, 58, 50, 58, 51, 48, 58, 53, 54, 58, 57, 48>>,
      <<72, 87, 58, 50, 53, 53, 58, 54, 53, 53, 51, 53, 58, 52, 50, 57, 52, 57, 54, 55, 50, 57, 53, 58, 48>>,
      <<77, 49, 58, 50, 53, 54, 58, 51, 48, 58, 53, 54, 58, 57, 48>>,
      <<77, 49, 58, 50, 58, 51, 48, 58, 53, 54>> }

\* "", "#", "#|", "#AC", "#AC|", "#|GT", "#AC|GT", "#A|B|C", "#AT#GG|C",
\* "#AC:G:T", "#AC#"
SampleSuffixes ==
    { <<>>,
      <<35>>,
      <<35, 124>>,
      <<35, 65, 67>>,
      <<35, 65, 67, 124>>,
      <<35, 124, 71, 84>>,
      <<35, 65, 67, 124, 71, 84>>,
      <<35, 65, 124, 66, 124, 67>>,
      <<35, 65, 84, 35, 71, 71, 124, 67>>,
      <<35, 65, 67, 58, 71, 58, 84>>,
      <<35, 65, 67, 35>> }

\* INSTRUMENT_RUN:LANE:TILE:X:Y followed by a suffix
LegacySampleNames ==
    { c \o suffix : c \in SampleCoordinateParts, suffix \in SampleSuffixes }

SampleNames ==
    ModernNames \cup LegacySampleNames \cup OtherNames
    \cup {TestModernName, TestLegacyName}

-----------------------------------------------------------------------------
(* TokSpec: tokenize_single on a fresh tokenizer, then detokenize          *)

NoProbe == [op |-> "none"]

PipeIdle ==
    /\ thread_num = 0 /\ buf_q = <<>> /\ compr_q = <<>> /\ sent = 0
    /\ received = 0 /\ tasks = <<>> /\ caller = "none" /\ delivered = <<>>
    /\ leftovers = <<>>

TokInit ==
    /\ PipeIdle
    /\ \E n \in SampleNames :
          probe = [op |-> "tokenize", phase |-> "name", name |-> n,
                   res |-> ParseErr(ReadNameDictionaryNew),
                   out |-> [ok |-> FALSE, name |-> <<>>]]

\* IlluminaTokenizer::new() followed by tokenize_single(name)
TokenizeSingle ==
    /\ probe.op = "tokenize" /\ probe.phase = "name"
    /\ probe' = [probe EXCEPT !.phase = "token",
                   !.res = tokenize_single(ReadNameDictionaryNew, probe.name)]
    /\ UNCHANGED pipeVars

\* detokenize(&token) on the same tokenizer
Detokenize ==
    /\ probe.op = "tokenize" /\ probe.phase = "token" /\ probe.res.ok
    /\ probe' = [probe EXCEPT !.phase = "out",
                   !.out = detokenize(probe.res.dict, probe.res.tok)]
    /\ UNCHANGED pipeVars

TokNext == TokenizeSingle \/ Detokenize

TokSpec == TokInit /\ [][TokNext]_vars

\* C10: for every read name the modern parser accepts, detokenize of the
\* token that tokenize_single returns on a fresh tokenizer gives back exactly
\* the bytes of the name.
C10_ModernRoundTrip ==
    (/\ probe.op = "tokenize" /\ probe.phase = "out"
     /\ parse_modern_illumina(ReadNameDictionaryNew, probe.name).ok)
    => (probe.out.ok /\ probe.out.name = probe.name)

\* C11: every token that tokenize_single produces from a name the modern
\* parser accepts has flowcell_id # 0, so detokenize never renders it in
\* the legacy shape.
C11_ModernFlowcellNonZero ==
    (/\ probe.op = "tokenize" /\ probe.phase \in {"token", "out"}
     /\ parse_modern_illumina(ReadNameDictionaryNew, probe.name).ok)
    => probe.res.tok.flowcell_id # 0

\* the ids of a table of the dictionary
Ids(table) == {k - 1 : k \in 1..Len(table)}

\* the id an optional component of a token refers to
OptIds(opt) == IF opt.some THEN {opt.v} ELSE {}

\* C27: on a fresh tokenizer, a tokenize_single that returns Err leaves
\* the four tables empty, and one that returns Ok leaves in them only the
\* instrument, flowcell, UMI and index of the returned token (no flowcell
\* for a token of the legacy parser, which carries none).
C27_AddsOnlyTokenComponents ==
    (probe.op = "tokenize" /\ probe.phase \in {"token", "out"}) =>
      Only({ IF ~probe.res.ok THEN d = ReadNameDictionaryNew
             ELSE /\ Ids(d.instruments) \subseteq {t.instrument_id}
                  /\ Ids(d.flowcells) \subseteq
                       (IF parse_modern_illumina(ReadNameDictionaryNew,
                                                 probe.name).ok
                        THEN {t.flowcell_id} ELSE {})
                  /\ Ids(d.umis) \subseteq OptIds(t.umi_id)
                  /\ Ids(d.indices) \subseteq OptIds(t.index_id)
             : d \in {probe.res.dict}, t \in {probe.res.tok} })

\* the name up to its first '#', and what follows that '#'
BeforeHash(name) ==
    Only({ IF i = 0 THEN name ELSE SubSeq(name, 1, i - 1)
           : i \in {FindFrom(name, HASH, 1)} })
AfterHash(name) ==
    Only({ IF i = 0 THEN <<>> ELSE SubSeq(name, i + 1, Len(name))
           : i \in {FindFrom(name, HASH, 1)} })

\* the component a token refers to: None when absent, else the bytes the
\* dictionary holds for the id
Referred(opt, table) == IF opt.some THEN TableGet(table, opt.v) ELSE None

\* an optional component as the claim reads it from the name
Present(bytes) == IF bytes = <<>> THEN None ELSE Some(bytes)

\* C21: for a name the modern parser rejects whose part before '#' has
\* exactly five colon-separated tokens with numeric lane, tile, x and y,
\* tokenize_single returns those values with flowcell_id = 0, read_num = 1,
\* flags = 0 and run_id the hash of the first token; the whole remainder
\* after the first '#' is split at its first '|' into index and UMI, each
\* absent iff empty, and without '|' the whole remainder is the index.
C21_LegacyParse ==
    (/\ probe.op = "tokenize" /\ probe.phase \in {"token", "out"}
     /\ IsUtf8(probe.name)
     /\ ~parse_modern_illumina(ReadNameDictionaryNew, probe.name).ok)
    => Only({
         (/\ Len(parts) = 5
          /\ ParseUInt(parts[2], 255).ok /\ ParseUInt(parts[3], 65535).ok
          /\ ParseU32(parts[4]).ok /\ ParseU32(parts[5]).ok)
         => Only({
              /\ probe.res.ok
              /\ t.lane = ParseUInt(parts[2], 255).v
              /\ t.tile = ParseUInt(parts[3], 65535).v
              /\ t.x_coord = ParseU32(parts[4]).v
              /\ t.y_coord = ParseU32(parts[5]).v
              /\ t.flowcell_id = 0 /\ t.read_num = 1 /\ t.flags = 0
              /\ t.run_id = hash_string(parts[1])
              /\ Referred(t.index_id, probe.res.dict.indices) =
                   Present(IF bar = 0 THEN rest ELSE SubSeq(rest, 1, bar - 1))
              /\ Referred(t.umi_id, probe.res.dict.umis) =
                   Present(IF bar = 0 THEN <<>> ELSE SubSeq(rest, bar + 1, Len(rest)))
              : t \in {probe.res.tok}, bar \in {FindFrom(rest, PIPE, 1)} })
         : parts \in {Split(BeforeHash(probe.name), {COLON})},
           rest \in {AfterHash(probe.name)} })

-----------------------------------------------------------------------------
(* utils.rs and analyzer.rs                                                *)

\* ByteUtils::count_byte
count_byte(haystack, needle) ==
    Cardinality({i \in 1..Len(haystack) : haystack[i] = needle})

\* ByteUtils::split_bytes
split_bytes(bytes, delimiter) == Split(bytes, {delimiter})

RECURSIVE PrefixFrom(_, _, _)
PrefixFrom(a, b, i) ==
    IF i > Len(a) \/ i > Len(b) THEN i - 1
    ELSE IF a[i] # b[i] THEN i - 1
    ELSE PrefixFrom(a, b, i + 1)

\* ByteUtils::common_prefix_length
common_prefix_length(a, b) == PrefixFrom(a, b, 1)

RECURSIVE TotalLen(_, _)
TotalLen(names, i) ==
    IF i > Len(names) THEN 0 ELSE Len(names[i]) + TotalLen(names, i + 1)

UniqueBytes(names) ==
    UNION { {names[i][j] : j \in 1..Len(names[i])} : i \in 1..Len(names) }

\* ByteUtils::calculate_redundancy(names) > 0.3, as the f64 arithmetic of
\* the code decides it: 1.0 - unique/total > 0.3.  For unique/total = 7/10
\* the quotient rounds to the double below 0.7 and the difference is
\* 0.30000000000000004, which is greater than the double 0.3; away from
\* that ratio the comparison agrees with the exact one.
RedundancyAboveThreshold(names) ==
    Only({ total > 0 /\ 10 * Cardinality(UniqueBytes(names)) <= 7 * total
           : total \in {TotalLen(names, 1)} })

is_illumina_pattern(name) ==
    count_byte(name, COLON) >= 6 /\ Len(split_bytes(name, COLON)) >= 7

is_pacbio_pattern(name) ==
    (\E i \in 1..Len(name) : name[i] = SLASH) /\ count_byte(name, SLASH) = 2

MinOf(S) == CHOOSE m \in S : \A x \in S : m <= x

has_custom_pattern(read_names) ==
    IF Len(read_names) < 2 THEN FALSE
    ELSE MinOf({common_prefix_length(read_names[1], read_names[i]) :
                    i \in 1..Len(read_names)})
         > Len(read_names[1]) \div 3

\* a detect_pattern that asks for PacBio before Illumina
detect_pattern_pacbio_first(read_names) ==
    Only({ IF total = 0 THEN "Unstructured"
           ELSE IF 5 * pacbio_count > 4 * total THEN "PacBio"
           ELSE IF 5 * illumina_count > 4 * total THEN "Illumina"
           ELSE IF has_custom_pattern(read_names) THEN "Custom"
           ELSE "Unstructured"
           : total \in {Len(read_names)},
             illumina_count \in
               {Cardinality({i \in 1..Len(read_names) :
                               is_illumina_pattern(read_names[i])})},
             pacbio_count \in
               {Cardinality({i \in 1..Len(read_names) :
                               is_pacbio_pattern(read_names[i])})} })

\* count as f64 / total as f64 > 0.8 is, for these counts, 5 * count > 4 * total
detect_pattern(read_names) ==
    Only({ IF total = 0 THEN "Unstructured"
           ELSE IF 5 * illumina_count > 4 * total THEN "Illumina"
           ELSE IF 5 * pacbio_count > 4 * total THEN "PacBio"
           ELSE IF has_custom_pattern(read_names) THEN "Custom"
           ELSE "Unstructured"
           : total \in {Len(read_names)},
             illumina_count \in
               {Cardinality({i \in 1..Len(read_names) :
                               is_illumina_pattern(read_names[i])})},
             pacbio_count \in
               {Cardinality({i \in 1..Len(read_names) :
                               is_pacbio_pattern(read_names[i])})} })

should_tokenize(read_names) ==
    IF Len(read_names) < 10 THEN FALSE
    ELSE Only({ IF pattern \in {"Illumina", "PacBio"} THEN TRUE
                ELSE IF pattern = "Custom"
                THEN RedundancyAboveThreshold(read_names)
                ELSE FALSE
                : pattern \in {detect_pattern(read_names)} })

-----------------------------------------------------------------------------
(* compressor.rs: what one task computes                                   *)

Codecs == {"Gzip", "Lz4", "Brotli", "Xz", "Zstd", "NoCompression"}

\* The bytes a general codec returns are kept symbolically: the codec, the
\* source it was applied to, and the bytes that precede its output in the
\* returned Vec.  GzEncoder::new(dest, ..) appends to dest; Lz4, Brotli and
\* NoCompression clear dest first; Xz and Zstd allocate their own Vec.
compress(source, dest, codec) ==
    [kind |-> "general", codec |-> codec, src |-> source,
     prefix |-> IF codec = "Gzip" THEN dest ELSE <<>>, post |-> <<>>]

\* position (0-based) of the first NUL in data[offset..uncompr_size), -1 if none
RECURSIVE NullPos(_, _, _, _)
NullPos(data, offset, uncompr_size, k) ==
    IF offset + k >= uncompr_size THEN -1
    ELSE IF data[offset + k + 1] = NUL THEN k
    ELSE NullPos(data, offset, uncompr_size, k + 1)

RECURSIVE PartitionKeepEmpty(_, _, _, _)
\* a loop that pushes the empty read names too
PartitionKeepEmpty(data, uncompr_size, offset, refs0) ==
    Only({ IF ~(offset < uncompr_size) THEN refs
           ELSE IF null_pos >= 0
           THEN PartitionKeepEmpty(data, uncompr_size, offset + null_pos + 1,
                   Append(refs, SubSeq(data, offset + 1, offset + null_pos)))
           ELSE Append(refs, SubSeq(data, offset + 1, uncompr_size))
           : refs \in {refs0},
             null_pos \in {NullPos(data, offset, uncompr_size, 0)} })

RECURSIVE PartitionFrom(_, _, _, _)
\* the loop that fills read_name_refs, from offset on
PartitionFrom(data, uncompr_size, offset, refs0) ==
    Only({ IF ~(offset < uncompr_size) THEN refs
           ELSE IF null_pos >= 0
           THEN PartitionFrom(data, uncompr_size, offset + null_pos + 1,
                   IF null_pos > 0
                   THEN Append(refs, SubSeq(data, offset + 1, offset + null_pos))
                   ELSE refs)
           ELSE Append(refs, SubSeq(data, offset + 1, uncompr_size))
           : refs \in {refs0},
             null_pos \in {NullPos(data, offset, uncompr_size, 0)} })

\* usize as u32 .to_le_bytes()
LE32(n) == <<n % 256, (n \div 256) % 256, (n \div 65536) % 256, n \div 16777216>>

\* u32::to_le_bytes() on the two halves
U32LE(u) == <<u.lo % 256, u.lo \div 256, u.hi % 256, u.hi \div 256>>

\* u16::to_le_bytes()
LE16(n) == <<n % 256, n \div 256>>

RECURSIVE SerializeSection(_, _)
SerializeSection(table, i) ==
    IF i > Len(table) THEN <<>>
    ELSE LE32(Len(table[i])) \o table[i] \o SerializeSection(table, i + 1)

\* IlluminaTokenizer::serialize_dictionary
serialize_dictionary(d) ==
    LE32(Len(d.instruments)) \o SerializeSection(d.instruments, 1)
    \o LE32(Len(d.flowcells)) \o SerializeSection(d.flowcells, 1)
    \o LE32(Len(d.umis)) \o SerializeSection(d.umis, 1)
    \o LE32(Len(d.indices)) \o SerializeSection(d.indices, 1)

ABSENT_UMI == 65535
ABSENT_INDEX == 255

SerializeToken(t) ==
    <<t.instrument_id>> \o U32LE(t.run_id) \o <<t.flowcell_id, t.lane>>
    \o LE16(t.tile) \o U32LE(t.x_coord) \o U32LE(t.y_coord)
    \o (IF t.umi_id.some THEN LE16(t.umi_id.v) ELSE LE16(ABSENT_UMI))
    \o <<t.read_num, t.flags>>
    \o <<IF t.index_id.some THEN t.index_id.v ELSE ABSENT_INDEX>>

RECURSIVE SerializeTokens(_, _)
SerializeTokens(toks, i) ==
    IF i > Len(toks) THEN <<>>
    ELSE SerializeToken(toks[i]) \o SerializeTokens(toks, i + 1)

\* encoded_data of the fallback branch
fallback_envelope(toks, d) ==
    Only({ LE32(Len(serialized_dict)) \o serialized_dict
           \o LE32(Len(toks)) \o SerializeTokens(toks, 1)
           : serialized_dict \in {serialize_dictionary(d)} })

\* PostTokenizationCompressor::compress_tokenized_data.  Its only error is a
\* DEFLATE (zlib) error passed up by `?`; whether zlib fails on a block is
\* an outcome of the library, given to the task as deflate_ok.  The block
\* it assembles is kept symbolically as the tokens and the dictionary.
compress_tokenized_data(toks, d, deflate_ok) ==
    [ok |-> deflate_ok,
     out |-> [kind |-> "post", codec |-> "none", src |-> <<>>, prefix |-> <<>>,
              post |-> <<toks, d>>]]

\* compr_data without the read-name branch
compr_data_untokenized(block_info, data, buf, deflate_ok) ==
    compress(SubSeq(data, 1, block_info.uncompr_size), buf, block_info.codec)

\* the expression bound to compr_data; buf is the scratch buffer after clear()
compr_data(block_info, data, buf, deflate_ok) ==
    LET raw == SubSeq(data, 1, block_info.uncompr_size) IN
    IF block_info.field = "ReadName"
    THEN Only({
           IF read_name_refs # <<>>
           THEN IF should_tokenize(read_name_refs)
                THEN Only({
                       IF tokenized.ok
                       THEN Only({
                              IF posted.ok
                              THEN posted.out
                              ELSE compress(fallback_envelope(tokenized.toks,
                                                              tokenized.dict),
                                            buf, block_info.codec)
                              : posted \in {compress_tokenized_data(
                                    tokenized.toks, tokenized.dict, deflate_ok)} })
                       ELSE compress(raw, buf, block_info.codec)
                       : tokenized \in {tokenize_batch(ReadNameDictionaryNew,
                                                       read_name_refs)} })
                ELSE compress(raw, buf, block_info.codec)
           ELSE compress(raw, buf, block_info.codec)
           : read_name_refs \in {PartitionFrom(data, block_info.uncompr_size,
                                               0, <<>>)} })
    ELSE compress(raw, buf, block_info.codec)

\* the scratch buffer is used as it was dequeued
buf_keep(buf) == buf

\* buf.clear()
buf_clear(buf) == <<>>

\* The closure of compress_block from recv() of the scratch buffer to the
\* value of compr_data.  codec is the fourth argument of compress_block.
task_body(block_info, data, codec, buf, deflate_ok) ==
    compr_data(block_info, data, buf_clear(buf), deflate_ok)

-----------------------------------------------------------------------------
(* Blocks the compressor is probed with                                    *)

\* ten modern Illumina names: "A:7:FC:1:3:0:9" .. , two with UMI, read number, flags and index
IlluminaNames ==
    << <<65, 58, 55, 58, 70, 67, 58, 49, 58, 51, 58, 48, 58, 57>>,
       <<65, 58, 55, 58, 70, 67, 58, 49, 58, 51, 58, 49, 58, 57>>,
       <<65, 58, 55, 58, 70, 67, 58, 49, 58, 51, 58, 50, 58, 57>>,
       <<65, 58, 55, 58, 70, 67, 58, 49, 58, 51, 58, 51, 58, 57>>,
       <<65, 58, 55, 58, 70, 67, 58, 49, 58, 51, 58, 52, 58, 57>>,
       <<65, 58, 55, 58, 70, 67, 58, 49, 58, 51, 58, 53, 58, 57>>,
       <<65, 58, 55, 58, 70, 67, 58, 49, 58, 51, 58, 54, 58, 57>>,
       <<65, 58, 55, 58, 70, 67, 58, 49, 58, 51, 58, 55, 58, 57>>,
       <<65, 58, 55, 58, 70, 67, 58, 49, 58, 51, 58, 56, 58, 57, 58, 65, 67, 71, 84, 58, 49, 58, 78, 58, 65, 84, 67>>,
       <<77, 49, 58, 55, 58, 72, 48, 58, 50, 58, 51, 58, 57, 58, 57, 32, 65, 67, 71, 84, 58, 50, 58, 89, 58, 65, 84, 67>> >>

\* ten names with six colons whose run is not a number: "A:x:FC:1:3:0:9" ..
BadIlluminaNames ==
    << <<65, 58, 120, 58, 70, 67, 58, 49, 58, 51, 58, 48, 58, 57>>,
       <<65, 58, 120, 58, 70, 67, 58, 49, 58, 51, 58, 49, 58, 57>>,
       <<65, 58, 120, 58, 70, 67, 58, 49, 58, 51, 58, 50, 58, 57>>,
       <<65, 58, 120, 58, 70, 67, 58, 49, 58, 51, 58, 51, 58, 57>>,
       <<65, 58, 120, 58, 70, 67, 58, 49, 58, 51, 58, 52, 58, 57>>,
       <<65, 58, 120, 58, 70, 67, 58, 49, 58, 51, 58, 53, 58, 57>>,
       <<65, 58, 120, 58, 70, 67, 58, 49, 58, 51, 58, 54, 58, 57>>,
       <<65, 58, 120, 58, 70, 67, 58, 49, 58, 51, 58, 55, 58, 57>>,
       <<65, 58, 120, 58, 70, 67, 58, 49, 58, 51, 58, 56, 58, 57>>,
       <<65, 58, 120, 58, 70, 67, 58, 49, 58, 51, 58, 57, 58, 57>> >>

\* ten legacy names: "A:2:30:5:0#AT|C" ..
LegacyNames ==
    << <<65, 58, 50, 58, 51, 48, 58, 53, 58, 48, 35, 65, 84, 124, 67>>,
       <<65, 58, 50, 58, 51, 48, 58, 53, 58, 49, 35, 65, 84, 124, 67>>,
       <<65, 58, 50, 58, 51, 48, 58, 53, 58, 50, 35, 65, 84, 124, 67>>,
       <<65, 58, 50, 58, 51, 48, 58, 53, 58, 51, 35, 65, 84, 124, 67>>,
       <<65, 58, 50, 58, 51, 48, 58, 53, 58, 52, 35, 65, 84, 124, 67>>,
       <<65, 58, 50, 58, 51, 48, 58, 53, 58, 53, 35, 65, 84, 124, 67>>,
       <<65, 58, 50, 58, 51, 48, 58, 53, 58, 54, 35, 65, 84, 124, 67>>,
       <<65, 58, 50, 58, 51, 48, 58, 53, 58, 55, 35, 65, 84, 124, 67>>,
       <<65, 58, 50, 58, 51, 48, 58, 53, 58, 56, 35, 65, 84, 124, 67>>,
       <<65, 58, 50, 58, 51, 48, 58, 53, 58, 57, 35, 65, 84, 124, 67>> >>

\* ten PacBio names: "m/0/0_9" ..
PacBioNames ==
    << <<109, 47, 48, 47, 48, 95, 57>>,
       <<109, 47, 49, 47, 48, 95, 57>>,
       <<109, 47, 50, 47, 48, 95, 57>>,
       <<109, 47, 51, 47, 48, 95, 57>>,
       <<109, 47, 52, 47, 48, 95, 57>>,
       <<109, 47, 53, 47, 48, 95, 57>>,
       <<109, 47, 54, 47, 48, 95, 57>>,
       <<109, 47, 55, 47, 48, 95, 57>>,
       <<109, 47, 56, 47, 48, 95, 57>>,
       <<109, 47, 57, 47, 48, 95, 57>> >>

\* three modern Illumina names
FewNames ==
    << <<65, 58, 55, 58, 70, 67, 58, 49, 58, 51, 58, 48, 58, 57>>,
       <<65, 58, 55, 58, 70, 67, 58, 49, 58, 51, 58, 49, 58, 57>>,
       <<65, 58, 55, 58, 70, 67, 58, 49, 58, 51, 58, 50, 58, 57>> >>

\* ten names without a common prefix: "aq0", "bq1", ..
UnstructuredNames ==
    << <<97, 113, 48>>,
       <<98, 113, 49>>,
       <<99, 113, 50>>,
       <<100, 113, 51>>,
       <<101, 113, 52>>,
       <<102, 113, 53>>,
       <<103, 113, 54>>,
       <<104, 113, 55>>,
       <<105, 113, 56>>,
       <<106, 113, 57>> >>

RECURSIVE JoinNul(_, _)
\* the read-name column: every name followed by a NUL
JoinNul(names, i) ==
    IF i > Len(names) THEN <<>>
    ELSE names[i] \o <<NUL>> \o JoinNul(names, i + 1)

SampleData ==
    { JoinNul(IlluminaNames, 1), JoinNul(BadIlluminaNames, 1),
      JoinNul(LegacyNames, 1), JoinNul(PacBioNames, 1), JoinNul(FewNames, 1),
      JoinNul(UnstructuredNames, 1), <<NUL, NUL, NUL>> }

\* uncompr_size never exceeds data.len(): the whole buffer, the buffer
\* without its last byte, a short prefix, nothing
SampleSizes(data) == {0, 2, Len(data) - 1, Len(data)}

SampleCodecs == {"Gzip", "NoCompression", "Zstd"}

SampleFields == {"ReadName", "Other"}

\* length of a fresh scratch buffer, vec![0; SIZE_LIMIT]
ScratchLen == 2

FreshBuf == [i \in 1..ScratchLen |-> 0]

\* a recycled buffer: the input bytes of an earlier block
UsedBuf == [i \in 1..ScratchLen |-> 65]

-----------------------------------------------------------------------------
(* PayloadSpec: the body of one task on one block                          *)

PayloadInit ==
    /\ PipeIdle
    /\ \E f \in SampleFields, d \in SampleData, c \in SampleCodecs,
          a \in SampleCodecs, ok \in BOOLEAN, b \in {FreshBuf, UsedBuf} :
         \E n \in SampleSizes(d) :
            probe = [op |-> "payload", phase |-> "in",
                     block_info |-> [field |-> f, uncompr_size |-> n, codec |-> c],
                     data |-> d, codec |-> a, buf |-> b, deflate_ok |-> ok,
                     out |-> compress(<<>>, <<>>, "NoCompression")]

RunTaskBody ==
    /\ probe.op = "payload" /\ probe.phase = "in"
    /\ probe' = [probe EXCEPT !.phase = "out",
                   !.out = task_body(probe.block_info, probe.data, probe.codec,
                                     probe.buf, probe.deflate_ok)]
    /\ UNCHANGED pipeVars

PayloadNext == RunTaskBody

PayloadSpec == PayloadInit /\ [][PayloadNext]_vars

\* the tokenizing branch is entered and tokenize_batch returns Ok
Tokenizes(block_info, data) ==
    /\ block_info.field = "ReadName"
    /\ Only({ /\ read_name_refs # <<>>
              /\ should_tokenize(read_name_refs)
              /\ tokenize_batch(ReadNameDictionaryNew, read_name_refs).ok
              : read_name_refs \in {PartitionFrom(data, block_info.uncompr_size,
                                                  0, <<>>)} })

\* the tokens and the dictionary of the block's names
TokensOf(block_info, data) ==
    tokenize_batch(ReadNameDictionaryNew,
                   PartitionFrom(data, block_info.uncompr_size, 0, <<>>))

\* C7: whenever a block goes through the general codec, the codec applied
\* is the codec argument of compress_block, whatever codec the block_info
\* carries.
C7_CodecArgumentApplied ==
    (probe.op = "payload" /\ probe.phase = "out" /\ probe.out.kind = "general")
        => probe.out.codec = probe.codec

\* C8: the payload is the post-tokenization output iff the block is a
\* read-name block with a non-empty partition that the analyzer approves,
\* tokenize_batch accepts and the post-codec compresses; it is the general
\* codec on the fallback envelope iff all of that holds but the post-codec
\* fails; in every other case it is the general codec on
\* data[0..uncompr_size).
C8_PayloadPath ==
    (probe.op = "payload" /\ probe.phase = "out") =>
      Only({ /\ (tokenizes /\ probe.deflate_ok) =>
                  Only({ probe.out = compress_tokenized_data(t.toks, t.dict, TRUE).out
                         : t \in {TokensOf(probe.block_info, probe.data)} })
             /\ (probe.out.kind = "post") <=> (tokenizes /\ probe.deflate_ok)
             /\ (tokenizes /\ ~probe.deflate_ok) =>
                  Only({ /\ probe.out.kind = "general"
                         /\ probe.out.src = fallback_envelope(t.toks, t.dict)
                         : t \in {TokensOf(probe.block_info, probe.data)} })
             /\ ~tokenizes =>
                  /\ probe.out.kind = "general"
                  /\ probe.out.src = SubSeq(probe.data, 1,
                                            probe.block_info.uncompr_size)
             : tokenizes \in {Tokenizes(probe.block_info, probe.data)} })

\* a read-name block was tokenized, the post-codec failed, and the general
\* codec ran on the envelope
C8_Witness ==
    /\ probe.op = "payload" /\ probe.phase = "out"
    /\ Tokenizes(probe.block_info, probe.data)
    /\ ~probe.deflate_ok
    /\ probe.out.kind = "general"
    /\ probe.out.src # SubSeq(probe.data, 1, probe.block_info.uncompr_size)

-----------------------------------------------------------------------------
(* The pipeline: Compressor::new, compress_block, get_compr_block, finish  *)

\* largest thread_num given to Compressor::new
MaxThreads == 2

\* largest number of compress_block calls
MaxSubmit == 2

\* threads of a rayon pool built with num_threads(0): rayon then chooses
\* the number itself (one per CPU)
DefaultThreads == 1

UnusedBlock == [tag |-> "UnusedBlock", k |-> 0]
Key(k) == [tag |-> "Key", k |-> k]
IsKey(ordering_key) == ordering_key.tag = "Key"

\* BlockInfo::default()
BlockInfoDefault == [field |-> "default", uncompr_size |-> 0, codec |-> "default"]

\* A CompressTask.  sub is bookkeeping of the model: the number of the
\* compress_block call whose closure sent it, 0 for the constructor.
CompressTask(ordering_key, block_info, buf, sub) ==
    [ordering_key |-> ordering_key, block_info |-> block_info, buf |-> buf,
     sub |-> sub]

\* a buffer pool with one buffer more than workers
new_buf_q_extra(n) == [i \in 1..(n + 1) |-> FreshBuf]

\* the buffer pool after the loop of Compressor::new
new_buf_q(n) == [i \in 1..n |-> FreshBuf]

\* a completion queue that was not primed
new_compr_q_unprimed(n) == <<>>

\* the completion queue after the loop of Compressor::new
new_compr_q(n) ==
    [i \in 1..n |-> CompressTask(UnusedBlock, BlockInfoDefault, FreshBuf, 0)]

\* worker threads of compr_pool
Workers == IF thread_num = 0 THEN DefaultThreads ELSE thread_num

\* closures that occupy a worker thread
Busy == {i \in 1..Len(tasks) : tasks[i].pc \in {"running", "holding", "returned"}}

NoPayload == [kind |-> "none", codec |-> "none", src |-> <<>>, prefix |-> <<>>,
              post |-> <<>>]

\* what the caller hands to compress_block, with the outcome zlib will have
\* on the block
PipeInputs ==
    { [block_info |-> [field |-> "Other", uncompr_size |-> 2, codec |-> "Gzip"],
       data |-> <<66, NUL, 67>>, codec |-> "NoCompression", deflate_ok |-> TRUE],
      [block_info |-> [field |-> "ReadName",
                       uncompr_size |-> Len(JoinNul(IlluminaNames, 1)),
                       codec |-> "Gzip"],
       data |-> JoinNul(IlluminaNames, 1), codec |-> "Zstd", deflate_ok |-> FALSE] }

\* ordering keys the n-th call is tried with: its own Key, and for the
\* plain block also UnusedBlock
SampleKeys(in, n) ==
    IF in.block_info.field = "Other" THEN {Key(n), UnusedBlock} ELSE {Key(n)}

Init ==
    /\ thread_num \in 0..MaxThreads
    /\ buf_q = new_buf_q(thread_num)
    /\ compr_q = new_compr_q(thread_num)
    /\ sent = 0
    /\ received = 0
    /\ tasks = <<>>
    /\ caller = "idle"
    /\ delivered = <<>>
    /\ leftovers = <<>>
    /\ probe = NoProbe

\* compress_block up to the call of install: sent is counted, the closure
\* is built
compress_block ==
    /\ caller = "idle"
    /\ sent < MaxSubmit
    /\ \E in \in PipeInputs :
       \E ordering_key \in SampleKeys(in, sent) :
         tasks' = Append(tasks,
                    [ordering_key |-> ordering_key, block_info |-> in.block_info,
                     data |-> in.data, codec |-> in.codec,
                     deflate_ok |-> in.deflate_ok, pc |-> "installing",
                     buf |-> <<>>, compr_data |-> NoPayload])
    /\ sent' = sent + 1
    /\ caller' = "compress_block"
    /\ UNCHANGED <<thread_num, buf_q, compr_q, received, delivered, leftovers, probe>>

\* compr_pool.install(|| rayon::spawn(..)): a free worker runs the outer
\* closure, which queues the task; compress_block returns
install ==
    /\ caller = "compress_block"
    /\ Cardinality(Busy) < Workers
    /\ tasks' = [tasks EXCEPT ![Len(tasks)].pc = "spawned"]
    /\ caller' = "idle"
    /\ UNCHANGED <<thread_num, buf_q, compr_q, sent, received, delivered,
                   leftovers, probe>>

\* a free worker picks the spawned closure
task_start(i) ==
    /\ tasks[i].pc = "spawned"
    /\ Cardinality(Busy) < Workers
    /\ tasks' = [tasks EXCEPT ![i].pc = "running"]
    /\ UNCHANGED <<thread_num, buf_q, compr_q, sent, received, caller,
                   delivered, leftovers, probe>>

\* buf_queue_rx.recv() returns, then the closure computes compr_data
task_recv_buf(i) ==
    /\ tasks[i].pc = "running"
    /\ buf_q # <<>>
    /\ buf_q' = Tail(buf_q)
    /\ tasks' = [tasks EXCEPT ![i].pc = "holding", ![i].buf = Head(buf_q),
                   ![i].compr_data =
                       task_body(tasks[i].block_info, tasks[i].data,
                                 tasks[i].codec, Head(buf_q), tasks[i].deflate_ok)]
    /\ UNCHANGED <<thread_num, compr_q, sent, received, caller, delivered,
                   leftovers, probe>>

\* the closure keeps its input buffer
task_drop_buf(i) ==
    /\ tasks[i].pc = "holding"
    /\ tasks' = [tasks EXCEPT ![i].pc = "returned"]
    /\ UNCHANGED <<thread_num, buf_q, compr_q, sent, received, caller,
                   delivered, leftovers, probe>>

\* buf_queue_tx.send(data): the input buffer goes to the pool
task_send_buf(i) ==
    /\ tasks[i].pc = "holding"
    /\ buf_q' = Append(buf_q, tasks[i].data)
    /\ tasks' = [tasks EXCEPT ![i].pc = "returned"]
    /\ UNCHANGED <<thread_num, compr_q, sent, received, caller, delivered,
                   leftovers, probe>>

\* the closure sends its completion while it still has its input buffer,
\* and ends without sending the buffer to the pool
task_publish_before_send(i) ==
    /\ tasks[i].pc = "holding"
    /\ compr_q' = Append(compr_q,
                    CompressTask(tasks[i].ordering_key, tasks[i].block_info,
                                 tasks[i].compr_data, i))
    /\ tasks' = [tasks EXCEPT ![i].pc = "done"]
    /\ UNCHANGED <<thread_num, buf_q, sent, received, caller, delivered,
                   leftovers, probe>>

\* the closure sends its completion twice
task_publish_twice(i) ==
    /\ tasks[i].pc = "returned"
    /\ compr_q' = compr_q \o
                    << CompressTask(tasks[i].ordering_key, tasks[i].block_info,
                                    tasks[i].compr_data, i),
                       CompressTask(tasks[i].ordering_key, tasks[i].block_info,
                                    tasks[i].compr_data, i) >>
    /\ tasks' = [tasks EXCEPT ![i].pc = "done"]
    /\ UNCHANGED <<thread_num, buf_q, sent, received, caller, delivered,
                   leftovers, probe>>

\* compressed_tx.send(CompressTask {..}): the closure ends
task_publish(i) ==
    /\ tasks[i].pc = "returned"
    /\ compr_q' = Append(compr_q,
                    CompressTask(tasks[i].ordering_key, tasks[i].block_info,
                                 tasks[i].compr_data, i))
    /\ tasks' = [tasks EXCEPT ![i].pc = "done"]
    /\ UNCHANGED <<thread_num, buf_q, sent, received, caller, delivered,
                   leftovers, probe>>

\* received counts every completion
received_after_any(task) == received + 1

\* received after get_compr_block has taken task from the queue
received_after(task) ==
    IF IsKey(task.ordering_key) THEN received + 1 ELSE received

\* a get_compr_block that takes the newest completion of the queue
get_compr_block_newest ==
    /\ caller = "idle"
    /\ compr_q # <<>>
    /\ compr_q' = SubSeq(compr_q, 1, Len(compr_q) - 1)
    /\ received' = received_after(compr_q[Len(compr_q)])
    /\ delivered' = Append(delivered, compr_q[Len(compr_q)])
    /\ UNCHANGED <<thread_num, buf_q, sent, tasks, caller, leftovers, probe>>

\* get_compr_block called by the owner; recv() returns once the completion
\* queue holds a task
get_compr_block ==
    /\ caller = "idle"
    /\ compr_q # <<>>
    /\ compr_q' = Tail(compr_q)
    /\ received' = received_after(Head(compr_q))
    /\ delivered' = Append(delivered, Head(compr_q))
    /\ UNCHANGED <<thread_num, buf_q, sent, tasks, caller, leftovers, probe>>

\* finish is entered: let mut leftovers = Vec::new()
finish_call ==
    /\ caller = "idle"
    /\ caller' = "finish"
    /\ leftovers' = <<>>
    /\ UNCHANGED <<thread_num, buf_q, compr_q, sent, received, tasks, delivered,
                   probe>>

\* one turn of the loop of finish: leftovers.push(self.get_compr_block())
finish_loop ==
    /\ caller = "finish"
    /\ received # sent
    /\ compr_q # <<>>
    /\ compr_q' = Tail(compr_q)
    /\ received' = received_after(Head(compr_q))
    /\ leftovers' = Append(leftovers, Head(compr_q))
    /\ UNCHANGED <<thread_num, buf_q, sent, tasks, caller, delivered, probe>>

\* finish returns without looking at the counters
finish_return_early ==
    /\ caller = "finish"
    /\ caller' = "finished"
    /\ UNCHANGED <<thread_num, buf_q, compr_q, sent, received, tasks, delivered,
                   leftovers, probe>>

\* the loop of finish ends and leftovers is returned
finish_return ==
    /\ caller = "finish"
    /\ received = sent
    /\ caller' = "finished"
    /\ UNCHANGED <<thread_num, buf_q, compr_q, sent, received, tasks, delivered,
                   leftovers, probe>>

TaskStart == \E i \in 1..Len(tasks) : task_start(i)
TaskRecvBuf == \E i \in 1..Len(tasks) : task_recv_buf(i)
TaskSendBuf == \E i \in 1..Len(tasks) : task_send_buf(i)
TaskPublish == \E i \in 1..Len(tasks) : task_publish(i)

Next ==
    \/ compress_block
    \/ install
    \/ TaskStart
    \/ TaskRecvBuf
    \/ TaskSendBuf
    \/ TaskPublish
    \/ get_compr_block
    \/ finish_call
    \/ finish_loop
    \/ finish_return

Spec == Init /\ [][Next]_vars

\* a step of a worker thread of compr_pool
Worker == install \/ TaskStart \/ TaskRecvBuf \/ TaskSendBuf \/ TaskPublish

\* a step of the owner's thread inside finish()
Finishing == finish_loop \/ finish_return

\* Worker threads and the thread inside finish() are scheduled by the
\* operating system: while one of them can take a step, one is eventually
\* taken.  The owner's calls of compress_block, get_compr_block and finish
\* are its own choice and carry no fairness.
FairSpec ==
    /\ Spec
    /\ WF_vars(Worker)
    /\ WF_vars(Finishing)

-----------------------------------------------------------------------------
(* Properties of the pipeline                                              *)

\* every submission so far carries a Key
AllKeys == \A i \in 1..Len(tasks) : IsKey(tasks[i].ordering_key)

\* every CompressTask sent so far, wherever it is now
Completions == compr_q \o delivered \o leftovers

\* what the caller has been given, by get_compr_block and by finish
Handed == delivered \o leftovers

\* positions of seq that hold the completion of submission i
Of(seq, i) == {j \in 1..Len(seq) : seq[j].sub = i}

KeyCount(seq) ==
    Cardinality({j \in 1..Len(seq) : IsKey(seq[j].ordering_key)})

UnusedCount(seq) ==
    Cardinality({j \in 1..Len(seq) : ~IsKey(seq[j].ordering_key)})

\* closures that hold a scratch buffer and have not sent their input back
Holders == {i \in 1..Len(tasks) : tasks[i].pc = "holding"}

\* closures whose compr_data is computed
Computed == {i \in 1..Len(tasks) : tasks[i].pc \in {"holding", "returned", "done"}}

AtMostOnce ==
    \A i \in 1..Len(tasks) :
        IsKey(tasks[i].ordering_key) =>
            /\ Cardinality(Of(Completions, i)) <= 1
            /\ \A j \in Of(Completions, i) :
                  /\ Completions[j].ordering_key = tasks[i].ordering_key
                  /\ Completions[j].block_info = tasks[i].block_info

\* C1: with thread_num >= 1 and fair workers, every compress_block call with
\* a Key is followed by exactly one CompressTask of that submission on the
\* completion queue, never a second one, and that task carries the
\* submitted key and block_info.
C1_ExactlyOneCompletion ==
    /\ []AtMostOnce
    /\ \A i \in 1..MaxSubmit :
          (thread_num >= 1 /\ Len(tasks) >= i /\ IsKey(tasks[i].ordering_key))
              ~> (Len(tasks) >= i /\ Cardinality(Of(Completions, i)) = 1)

\* a Key submission has been completed by a worker of a pool with threads
C1_Witness ==
    /\ thread_num >= 1
    /\ \E i \in 1..Len(tasks) :
          /\ IsKey(tasks[i].ordering_key)
          /\ tasks[i].pc = "done"
          /\ Cardinality(Of(Completions, i)) = 1

\* C2 as stated: once finish() has returned, the caller has been given
\* exactly |S| tasks with a Key and exactly thread_num tasks with
\* UnusedBlock, for every thread_num and every S, S empty included.
C2_AllSentinelsDelivered ==
    (caller = "finished" /\ AllKeys) =>
        /\ KeyCount(Handed) = Len(tasks)
        /\ UnusedCount(Handed) = thread_num

\* C2 amended: once finish() has returned, the caller has been given
\* exactly |S| tasks with a Key; exactly thread_num tasks with UnusedBlock
\* when S is not empty; and when S is empty finish() returned an empty list,
\* so only the sentinels fetched before through get_compr_block, at most
\* thread_num, were given.
C2_SentinelsDeliveredIfWork ==
    (caller = "finished" /\ AllKeys) =>
        /\ KeyCount(Handed) = Len(tasks)
        /\ Len(tasks) > 0 => UnusedCount(Handed) = thread_num
        /\ Len(tasks) = 0 =>
              /\ leftovers = <<>>
              /\ UnusedCount(Handed) = Len(delivered)
              /\ UnusedCount(Handed) <= thread_num

\* finish() has returned after work on a pool of two threads
C2_Witness ==
    /\ caller = "finished"
    /\ AllKeys
    /\ Len(tasks) > 0
    /\ thread_num = 2
    /\ UnusedCount(Handed) = 2

\* the part of C3 that holds: every outstanding Key submission is in the
\* list of finish() once, every other one is not
OutstandingReturned ==
    \A i \in 1..Len(tasks) :
        IsKey(tasks[i].ordering_key) =>
            Cardinality(Of(leftovers, i)) =
                (IF Of(delivered, i) = {} THEN 1 ELSE 0)

\* C3 as stated: finish() returns exactly the real completions not yet
\* retrieved: every outstanding Key submission once, and no task whose
\* ordering key is UnusedBlock.
C3_OnlyRealCompletions ==
    caller = "finished" =>
        /\ OutstandingReturned
        /\ UnusedCount(leftovers) = 0

\* C3 amended: the list of finish() holds every outstanding Key submission
\* once and no other Key task; it also holds, ahead of them, every
\* UnusedBlock sentinel of the constructor that get_compr_block had not
\* fetched, when there was an outstanding submission.
C3_LeftoversWithSentinels ==
    caller = "finished" =>
        /\ OutstandingReturned
        /\ KeyCount(leftovers) = Len(tasks) - KeyCount(delivered)
        /\ UnusedCount(leftovers) =
              (IF KeyCount(leftovers) > 0
               THEN thread_num - UnusedCount(delivered) ELSE 0)
        /\ \A j \in 1..Len(leftovers) :
              ~IsKey(leftovers[j].ordering_key) =>
                  /\ leftovers[j].sub = 0
                  /\ j <= UnusedCount(leftovers)

\* finish() has returned a list with a sentinel and a real completion
C3_Witness ==
    /\ caller = "finished"
    /\ UnusedCount(leftovers) > 0
    /\ KeyCount(leftovers) > 0

\* C4: with thread_num >= 1, fair workers and only Key submissions, a call
\* of finish() made after any compress_block and get_compr_block calls
\* eventually returns, and received == sent when it does.
C4_FinishReturns ==
    /\ [](caller = "finished" => received = sent)
    /\ (thread_num >= 1 /\ caller = "finish" /\ AllKeys)
           ~> (caller = "finished" /\ received = sent)

\* finish() has returned after two submissions, one of them fetched before
\* through get_compr_block
C4_Witness ==
    /\ caller = "finished"
    /\ thread_num >= 1
    /\ Len(tasks) >= 2
    /\ KeyCount(delivered) > 0
    /\ KeyCount(leftovers) > 0

\* C5: in every state the buffers in the pool plus the tasks that have
\* dequeued a scratch buffer and not yet returned their input buffer are
\* thread_num; so the pool never holds more than thread_num buffers and at
\* most thread_num tasks hold a buffer.
C5_BufferConservation ==
    /\ Len(buf_q) + Cardinality(Holders) = thread_num
    /\ Len(buf_q) <= thread_num
    /\ Cardinality(Holders) <= thread_num

\* one task holds a scratch buffer while another has returned its input
C5_Witness ==
    /\ Holders # {}
    /\ \E i \in 1..Len(tasks) : tasks[i].pc \in {"returned", "done"}
    /\ Len(buf_q) >= 1

\* a closure that has sent its input buffer can send its completion
PublishNeverBlocks ==
    \A i \in 1..Len(tasks) :
        tasks[i].pc = "returned" => ENABLED task_publish(i)

\* C6 as stated: for every thread_num, every task that starts executing
\* eventually obtains a buffer from the pool, and publishing never blocks.
C6_NeverStarves ==
    /\ []PublishNeverBlocks
    /\ \A i \in 1..MaxSubmit :
          (Len(tasks) >= i /\ tasks[i].pc = "running")
              ~> (Len(tasks) >= i /\ tasks[i].pc = "holding")

\* C6 amended: for every thread_num >= 1, every task that starts executing
\* eventually obtains a buffer from the pool, and publishing never blocks.
C6_NeverStarvesWithThreads ==
    /\ []PublishNeverBlocks
    /\ \A i \in 1..MaxSubmit :
          (thread_num >= 1 /\ Len(tasks) >= i /\ tasks[i].pc = "running")
              ~> (Len(tasks) >= i /\ tasks[i].pc = "holding")

\* a task has obtained a buffer that an earlier task put back into the pool
C6_Witness ==
    /\ thread_num >= 1
    /\ \E i \in 1..Len(tasks) :
          /\ tasks[i].pc = "holding"
          /\ \E j \in 1..Len(tasks) : j # i /\ tasks[i].buf = tasks[j].data

\* C9: the payload of a submission depends on its own block_info and data
\* only (and on what zlib does with that block): whichever scratch buffer a
\* task dequeues and whatever ran before it, two submissions of the same
\* block get the same payload, and no byte of the scratch buffer is in it.
C9_TasksIndependent ==
    \A i \in Computed :
        /\ tasks[i].compr_data.prefix = <<>>
        /\ \A j \in Computed :
              ( /\ tasks[i].block_info = tasks[j].block_info
                /\ tasks[i].data = tasks[j].data
                /\ tasks[i].deflate_ok = tasks[j].deflate_ok )
                  => tasks[i].compr_data = tasks[j].compr_data

\* the same block was compressed twice through the gzip codec, once with a
\* fresh scratch buffer and once with a recycled one
C9_Witness ==
    \E i, j \in Computed :
        /\ i # j
        /\ tasks[i].block_info = tasks[j].block_info
        /\ tasks[i].data = tasks[j].data
        /\ tasks[i].deflate_ok = tasks[j].deflate_ok
        /\ tasks[i].compr_data.kind = "general"
        /\ tasks[i].compr_data.codec = "Gzip"
        /\ tasks[i].buf = FreshBuf
        /\ tasks[j].buf = tasks[i].data

\* C22: a worker sends its input buffer to the pool before it sends the
\* completion: the closure of every task the caller has been given is past
\* buf_queue_tx.send, and once finish() has returned the pool holds
\* exactly thread_num buffers.
C22_BufferBackBeforeCompletion ==
    /\ \A j \in 1..Len(Completions) :
          Completions[j].sub > 0 =>
              /\ Completions[j].sub \notin Holders
              /\ tasks[Completions[j].sub].pc = "done"
    /\ caller = "finished" => Len(buf_q) = thread_num

\* finish() has returned after two tasks on two threads, and the pool
\* holds the input buffers of both
C22_Witness ==
    /\ caller = "finished"
    /\ thread_num = 2
    /\ Len(tasks) = 2
    /\ Len(buf_q) = 2
    /\ \A i \in 1..2 : \E b \in 1..2 : buf_q[b] = tasks[i].data

\* C26: when every submission carries a Key, the caller is handed all the
\* UnusedBlock sentinels it gets before any Key completion, and none waits
\* in the queue behind a Key completion.
C26_SentinelsFirst ==
    AllKeys =>
      Only({ \A j \in 1..Len(order) : \A k \in (j + 1)..Len(order) :
                IsKey(order[j].ordering_key) => IsKey(order[k].ordering_key)
             : order \in {Handed \o compr_q} })

\* get_compr_block has returned both sentinels and then two Key completions
C26_Witness ==
    /\ AllKeys
    /\ thread_num = 2
    /\ Len(delivered) = 4
    /\ ~IsKey(delivered[1].ordering_key) /\ ~IsKey(delivered[2].ordering_key)
    /\ IsKey(delivered[3].ordering_key) /\ IsKey(delivered[4].ordering_key)

\* C28: compress_block counts a submission with UnusedBlock in sent like
\* any other, its completion is never counted in received, and from that
\* submission on received stays below sent and finish() does not return.
C28_UnusedBlockSubmission ==
    /\ sent = Len(tasks)
    /\ received = KeyCount(Handed)
    /\ ~AllKeys => received < sent /\ caller # "finished"

\* finish() waits on an empty queue after every closure has ended and the
\* completion of the UnusedBlock submission has been handed over
C28_Witness ==
    /\ ~AllKeys
    /\ caller = "finish"
    /\ compr_q = <<>>
    /\ \A i \in 1..Len(tasks) : tasks[i].pc = "done"
    /\ \E j \in 1..Len(Handed) :
          Handed[j].sub > 0 /\ ~IsKey(Handed[j].ordering_key)
    /\ received < sent

-----------------------------------------------------------------------------
(* BatchSpec: tokenize_batch on a fresh tokenizer                          *)

\* longest batch given to tokenize_batch
MaxBatch == 3

\* "A:7:FC:1:30:5678:9012:ACGT:1:N:ATC", "M1:2:30:56:90",
\* "A:x:FC:1:30:56:90", "not-a-read-name", and a name with the byte 0xFF
BatchNames ==
    { <<65, 58, 55, 58, 70, 67, 58, 49, 58, 51, 48, 58, 53, 54, 55, 56, 58, 57,
        48, 49, 50, 58, 65, 67, 71, 84, 58, 49, 58, 78, 58, 65, 84, 67>>,
      <<77, 49, 58, 50, 58, 51, 48, 58, 53, 54, 58, 57, 48>>,
      <<65, 58, 120, 58, 70, 67, 58, 49, 58, 51, 48, 58, 53, 54, 58, 57, 48>>,
      <<110, 111, 116, 45, 97, 45, 114, 101, 97, 100, 45, 110, 97, 109, 101>>,
      <<66, 255, 58, 55, 58, 70, 67, 58, 49, 58, 51, 48, 58, 53, 58, 57>> }

SampleBatches ==
    UNION { [1..n -> BatchNames] : n \in 0..MaxBatch }

BatchInit ==
    /\ PipeIdle
    /\ \E names \in SampleBatches :
          probe = [op |-> "batch", phase |-> "in", names |-> names,
                   res |-> BatchFrom(ReadNameDictionaryNew, <<>>, 1, <<>>)]

\* IlluminaTokenizer::new() followed by tokenize_batch(names)
TokenizeBatch ==
    /\ probe.op = "batch" /\ probe.phase = "in"
    /\ probe' = [probe EXCEPT !.phase = "out",
                   !.res = tokenize_batch(ReadNameDictionaryNew, probe.names)]
    /\ UNCHANGED pipeVars

BatchNext == TokenizeBatch

BatchSpec == BatchInit /\ [][BatchNext]_vars

RECURSIVE SingleAfter(_, _)
\* what tokenize_single returns for the k-th name when the names before it
\* were given to tokenize_single one by one on a fresh tokenizer
SingleAfter(names, k) ==
    tokenize_single(IF k = 1 THEN ReadNameDictionaryNew
                    ELSE SingleAfter(names, k - 1).dict,
                    names[k])

\* positions of the names that tokenize_single rejects in their turn
Failing(names) == {k \in 1..Len(names) : ~SingleAfter(names, k).ok}

\* C12: tokenize_batch is all-or-nothing.  If a name fails tokenize_single
\* the call returns a ParseError and no token list, the error carries the
\* zero-based index of the first failing name and its lossy UTF-8
\* rendering, and no later name is processed; if no name fails it returns
\* one token per name in input order.
C12_BatchAllOrNothing ==
    (probe.op = "batch" /\ probe.phase = "out") =>
      Only({ IF failing = {}
             THEN /\ probe.res.ok
                  /\ Len(probe.res.toks) = Len(probe.names)
                  /\ \A k \in 1..Len(probe.names) :
                        probe.res.toks[k] = SingleAfter(probe.names, k).tok
             ELSE Only({ /\ ~probe.res.ok
                         /\ probe.res.toks = <<>>
                         /\ probe.res.err.kind = "ParseError"
                         /\ probe.res.err.index = first - 1
                         /\ probe.res.err.name =
                               bytes_to_string_lossy(probe.names[first])
                         /\ probe.res.processed = first
                         /\ probe.res.dict = SingleAfter(probe.names, first).dict
                         : first \in {MinOf(failing)} })
             : failing \in {Failing(probe.names)} })

\* a batch whose second name fails after a first that was tokenized, with
\* a third name left unprocessed
C12_Witness ==
    /\ probe.op = "batch" /\ probe.phase = "out"
    /\ Len(probe.names) = 3
    /\ ~probe.res.ok
    /\ probe.res.err.index = 1
    /\ ~IsUtf8(probe.names[2])
    /\ SingleAfter(<<probe.names[3]>>, 1).ok

-----------------------------------------------------------------------------
(* DictSpec: sequences of add_* calls on a dictionary                      *)

\* number of add_* calls followed from each starting dictionary
MaxAdds == 2

Tables == {"instruments", "flowcells", "umis", "indices"}

CapOf(t) == IF t = "umis" THEN UMI_TABLE_CAP ELSE U8_TABLE_CAP
SinkOf(t) == IF t = "umis" THEN UMI_TABLE_SINK ELSE U8_TABLE_SINK

TableOf(d, t) ==
    CASE t = "instruments" -> d.instruments
      [] t = "flowcells" -> d.flowcells
      [] t = "umis" -> d.umis
      [] t = "indices" -> d.indices

MapOf(d, t) ==
    CASE t = "instruments" -> d.instrument_map
      [] t = "flowcells" -> d.flowcell_map
      [] t = "umis" -> d.umi_map
      [] t = "indices" -> d.index_map

AddOf(d, t, x) ==
    CASE t = "instruments" -> add_instrument(d, x)
      [] t = "flowcells" -> add_flowcell(d, x)
      [] t = "umis" -> add_umi(d, x)
      [] t = "indices" -> add_index(d, x)

GetOf(d, t, id) ==
    CASE t = "instruments" -> get_instrument(d, id)
      [] t = "flowcells" -> get_flowcell(d, id)
      [] t = "umis" -> get_umi(d, id)
      [] t = "indices" -> get_index(d, id)

\* the i-th of the pairwise different two-byte values a dictionary is
\* filled with before the calls that are followed
FillEntry(i) == <<i \div 256, i % 256>>

\* the table and the reverse map that n add calls of FillEntry(0),
\* FillEntry(1), ... leave behind: every call appends with id = len
FilledTable(n) == [k \in 1..n |-> FillEntry(k - 1)] \o <<>>
FilledMap(n) == {<<FillEntry(k - 1), k - 1>> : k \in 1..n}

\* a dictionary after nu8 adds to each u8 table and numi adds of UMIs
FilledDict(nu8, numi) ==
    [instruments |-> FilledTable(nu8), flowcells |-> FilledTable(nu8),
     umis |-> FilledTable(numi), indices |-> FilledTable(nu8),
     instrument_map |-> FilledMap(nu8), flowcell_map |-> FilledMap(nu8),
     umi_map |-> FilledMap(numi), index_map |-> FilledMap(nu8)]

\* fill levels: empty, and one, two and no free entries in the u8 tables
\* or in the UMI table
FillLevels ==
    {<<0, 0>>} \cup {<<U8_TABLE_CAP - k, 0>> : k \in 0..2}
               \cup {<<0, UMI_TABLE_CAP - k>> : k \in 0..2}

\* FillEntry(0) is in every filled table; the three-byte values are in none
DictValues == {FillEntry(0), <<85, 77, 73>>, <<85, 77, 74>>}

NoCall == [table |-> "none", x |-> <<>>, id |-> 0, len_before |-> 0,
           hit |-> FALSE, changed |-> FALSE, appended |-> FALSE]

DictInit ==
    /\ PipeIdle
    /\ \E lv \in FillLevels :
          probe = [op |-> "dict", dict |-> FilledDict(lv[1], lv[2]),
                   last |-> NoCall, prev |-> NoCall, pins |-> {}, n |-> 0]

\* one add_* call; last and prev keep what the last two calls were given
\* and returned, pins the (table, value, id) of every add made while the
\* table was below capacity
DictAdd(t, x) ==
    /\ probe.op = "dict" /\ probe.n < MaxAdds
    /\ probe' =
         Only({ [probe EXCEPT
                   !.dict = r.dict,
                   !.prev = probe.last,
                   !.last = [table |-> t, x |-> x, id |-> r.id,
                             len_before |-> Len(TableOf(probe.dict, t)),
                             hit |-> MapGet(MapOf(probe.dict, t), x).some,
                             changed |-> r.dict # probe.dict,
                             appended |->
                               /\ TableOf(r.dict, t) = Append(TableOf(probe.dict, t), x)
                               /\ MapOf(r.dict, t) =
                                    MapOf(probe.dict, t) \cup {<<x, r.id>>}
                               /\ \A u \in Tables \ {t} :
                                    /\ TableOf(r.dict, u) = TableOf(probe.dict, u)
                                    /\ MapOf(r.dict, u) = MapOf(probe.dict, u)],
                   !.pins = IF Len(TableOf(probe.dict, t)) < CapOf(t)
                            THEN @ \cup {<<t, x, r.id>>} ELSE @,
                   !.n = @ + 1]
                : r \in {AddOf(probe.dict, t, x)} })
    /\ UNCHANGED pipeVars

AddInstrument == \E x \in DictValues : DictAdd("instruments", x)
AddFlowcell == \E x \in DictValues : DictAdd("flowcells", x)
AddUmi == \E x \in DictValues : DictAdd("umis", x)
AddIndex == \E x \in DictValues : DictAdd("indices", x)

DictNext == AddInstrument \/ AddFlowcell \/ AddUmi \/ AddIndex

DictSpec == DictInit /\ [][DictNext]_vars

\* the ids get_* is asked for: every u8 id; of the u16 ids the ones around
\* 0, around the table's length and around the cap
SampleIds(t, len) ==
    IF t = "umis"
    THEN ((0..2) \cup ((len - 2)..(len + 2)) \cup ((UMI_TABLE_CAP - 2)..UMI_TABLE_CAP))
         \cap (0..UMI_TABLE_CAP)
    ELSE 0..U8_TABLE_CAP

\* C13: after any sequence of add_* calls every table is no longer than its
\* cap, its entries are pairwise distinct, its reverse map holds exactly
\* the pairs (table[i], i) for the dense ids 0..len-1, and get(id) is
\* defined exactly for id < len.
C13_DictionaryInvariants ==
    probe.op = "dict" =>
      \A t \in Tables :
        Only({ /\ Len(tab) <= CapOf(t)
               /\ Cardinality({tab[i] : i \in 1..Len(tab)}) = Len(tab)
               /\ MapOf(probe.dict, t) = {<<tab[i], i - 1>> : i \in 1..Len(tab)}
               /\ \A id \in SampleIds(t, Len(tab)) :
                     GetOf(probe.dict, t, id).some <=> id < Len(tab)
               : tab \in {TableOf(probe.dict, t)} })

\* a UMI table that add_umi calls have filled to its cap, and a further
\* add of a new value made to it
C13_Witness ==
    /\ probe.op = "dict"
    /\ Len(probe.dict.umis) = UMI_TABLE_CAP
    /\ probe.last.table = "umis" /\ ~probe.last.hit
    /\ probe.last.len_before = UMI_TABLE_CAP

\* C14: add is idempotent in every dictionary state, a saturated table
\* included: the second of two consecutive add(x) calls on a table returns
\* the id of the first and leaves the dictionary as it was; and two
\* different values added to a table below capacity have different ids.
C14_AddIdempotent ==
    probe.op = "dict" =>
      /\ (/\ probe.last.table # "none"
          /\ probe.prev.table = probe.last.table
          /\ probe.prev.x = probe.last.x)
         => (probe.last.id = probe.prev.id /\ ~probe.last.changed)
      /\ \A p \in probe.pins : \A q \in probe.pins :
            (p[1] = q[1] /\ p[2] # q[2]) => p[3] # q[3]

\* the same new value added twice to a table that is at its cap
C14_Witness ==
    /\ probe.op = "dict"
    /\ probe.prev.table = probe.last.table
    /\ probe.prev.x = probe.last.x
    /\ probe.prev.len_before = CapOf(probe.last.table)
    /\ ~probe.prev.hit

\* C15: for every value x added while its table is below capacity,
\* get(add(x)) is x, also after the adds that follow.
C15_AddGetRoundTrip ==
    probe.op = "dict" =>
      \A p \in probe.pins : GetOf(probe.dict, p[1], p[3]) = Some(p[2])

\* a new value added below capacity and a later add that appended another
\* value to the same table
C15_Witness ==
    /\ probe.op = "dict"
    /\ probe.prev.table = probe.last.table
    /\ ~probe.prev.hit /\ probe.prev.appended
    /\ probe.last.appended
    /\ <<probe.prev.table, probe.prev.x, probe.prev.id>> \in probe.pins

\* C16 as first stated: at cap - 1 entries (254, or 65534 UMIs) add of a
\* new value returns the sink cap - 1 and leaves table and map unchanged.
C16_SinkAtCapMinusOne ==
    (/\ probe.op = "dict" /\ probe.last.table # "none"
     /\ ~probe.last.hit
     /\ probe.last.len_before = CapOf(probe.last.table) - 1)
    => (probe.last.id = SinkOf(probe.last.table) /\ ~probe.last.changed)

\* C16: at cap entries (255, or 65535 UMIs) add of a new value returns the
\* sink cap - 1 and leaves the dictionary unchanged; with fewer entries,
\* cap - 1 of them included, the new value is appended and its id is the
\* table's former length.
C16_SinkAtCap ==
    (probe.op = "dict" /\ probe.last.table # "none" /\ ~probe.last.hit)
    => IF probe.last.len_before >= CapOf(probe.last.table)
       THEN probe.last.id = SinkOf(probe.last.table) /\ ~probe.last.changed
       ELSE probe.last.id = probe.last.len_before /\ probe.last.appended

\* a new instrument appended at 254 entries, then another new one given
\* the sink at 255 entries
C16_Witness ==
    /\ probe.op = "dict"
    /\ probe.prev.table = "instruments" /\ probe.last.table = "instruments"
    /\ ~probe.prev.hit /\ probe.prev.len_before = U8_TABLE_CAP - 1
    /\ ~probe.last.hit /\ probe.last.len_before = U8_TABLE_CAP
    /\ probe.last.id = U8_TABLE_SINK

-----------------------------------------------------------------------------
(* AnalyzerSpec: detect_pattern and should_tokenize on sampled batches     *)

\* sizes of the sampled batches: around the 2-name rule of
\* has_custom_pattern, the 80% thresholds and the 10-name rule
BatchSizes == {0, 1, 2, 5, 9, 10}

\* a name of the given kind: "I" has six colons, "P" two slashes, "B" six
\* colons and two slashes, "U" neither; names of a batch either share an
\* eight-byte prefix or begin with a byte of their kind
KindName(kind, j, shared) ==
    (IF shared THEN <<65, 66, 67, 68, 69, 70, 71, 72>>
     ELSE CASE kind = "I" -> <<73>> [] kind = "P" -> <<80>>
            [] kind = "B" -> <<66>> [] kind = "U" -> <<85>>)
    \o (CASE kind = "I" -> <<COLON, COLON, COLON, COLON, COLON, COLON, 48 + j>>
          [] kind = "P" -> <<SLASH, 48 + j, SLASH>>
          [] kind = "B" -> <<COLON, COLON, COLON, SLASH, COLON, COLON, COLON,
                             48 + j, SLASH>>
          [] kind = "U" -> <<48 + j>>)

\* the batch with c[1] "I" names, then c[2] "P", c[3] "B" and c[4] "U" names
KindBatch(c, shared) ==
    [k \in 1..(c[1] + c[2] + c[3] + c[4]) |->
       KindName(IF k <= c[1] THEN "I"
                ELSE IF k <= c[1] + c[2] THEN "P"
                ELSE IF k <= c[1] + c[2] + c[3] THEN "B" ELSE "U",
                k - 1, shared)] \o <<>>

Compositions ==
    {c \in (0..10) \X (0..10) \X (0..10) \X (0..10) :
       c[1] + c[2] + c[3] + c[4] \in BatchSizes}

\* ten names "X", "Xab", "Xcd", ... with the common prefix "X": 30 bytes of
\* which 21 are distinct (unique / total = 7/10), 40 bytes of which 28 are
\* distinct (7/10 again), and 37 bytes of which 28 are distinct
PrefixBatches ==
    { << <<88>>, <<88, 97, 98>>, <<88, 99, 100>>, <<88, 101, 102>>,
         <<88, 103, 104>>, <<88, 105, 106>>, <<88, 107, 108>>, <<88, 109, 110>>,
         <<88, 111, 112, 113>>, <<88, 114, 115, 116>> >>,
      << <<88>>, <<88, 97, 98, 99, 97>>, <<88, 100, 101, 102, 97>>,
         <<88, 103, 104, 105, 97>>, <<88, 106, 107, 108>>, <<88, 109, 110, 111>>,
         <<88, 112, 113, 114>>, <<88, 115, 116, 117>>, <<88, 118, 119, 120>>,
         <<88, 121, 122, 123>> >>,
      << <<88>>, <<88, 97, 98, 99>>, <<88, 100, 101, 102>>, <<88, 103, 104, 105>>,
         <<88, 106, 107, 108>>, <<88, 109, 110, 111>>, <<88, 112, 113, 114>>,
         <<88, 115, 116, 117>>, <<88, 118, 119, 120>>, <<88, 121, 122, 123>> >> }

AnalyzerBatches ==
    {KindBatch(c, shared) : c \in Compositions, shared \in BOOLEAN}
    \cup PrefixBatches

AnalyzerInit ==
    /\ PipeIdle
    /\ \E names \in AnalyzerBatches :
          probe = [op |-> "analyze", phase |-> "in", names |-> names,
                   pattern |-> "none", tokenize |-> FALSE]

\* ReadNameAnalyzer::detect_pattern(names)
DetectPattern ==
    /\ probe.op = "analyze" /\ probe.phase = "in"
    /\ probe' = [probe EXCEPT !.phase = "pattern",
                   !.pattern = detect_pattern(probe.names)]
    /\ UNCHANGED pipeVars

\* ReadNameAnalyzer::should_tokenize(names)
ShouldTokenize ==
    /\ probe.op = "analyze" /\ probe.phase = "pattern"
    /\ probe' = [probe EXCEPT !.phase = "out",
                   !.tokenize = should_tokenize(probe.names)]
    /\ UNCHANGED pipeVars

AnalyzerNext == DetectPattern \/ ShouldTokenize

AnalyzerSpec == AnalyzerInit /\ [][AnalyzerNext]_vars

\* the number of names with at least six colons, and with exactly two '/'
ColonNames(names) ==
    Cardinality({i \in 1..Len(names) :
                   Cardinality({j \in 1..Len(names[i]) : names[i][j] = COLON}) >= 6})
SlashNames(names) ==
    Cardinality({i \in 1..Len(names) :
                   Cardinality({j \in 1..Len(names[i]) : names[i][j] = SLASH}) = 2})

\* the longest p such that every name agrees with names[1] on its first p bytes
SharedPrefix(names) ==
    CHOOSE p \in 0..Len(names[1]) :
      /\ \A i \in 1..Len(names) :
            Len(names[i]) >= p /\ \A j \in 1..p : names[i][j] = names[1][j]
      /\ p < Len(names[1]) =>
            \E i \in 1..Len(names) :
              Len(names[i]) <= p \/ names[i][p + 1] # names[1][p + 1]

\* C17: should_tokenize is false for fewer than 10 names; for 10 or more it
\* is true exactly when the pattern is Illumina or PacBio, or is Custom
\* with redundancy (1 - distinct bytes / total bytes) strictly above 0.3,
\* that is 10 * (total - distinct) > 3 * total.
C17_ShouldTokenize ==
    (probe.op = "analyze" /\ probe.phase = "out") =>
      Only({ probe.tokenize <=>
               /\ Len(probe.names) >= 10
               /\ \/ probe.pattern \in {"Illumina", "PacBio"}
                  \/ /\ probe.pattern = "Custom"
                     /\ total > 0
                     /\ 10 * (total - distinct) > 3 * total
             : total \in {TotalLen(probe.names, 1)},
               distinct \in {Cardinality(UniqueBytes(probe.names))} })

\* C18: detect_pattern applies its rules in order: empty batch ->
\* Unstructured; Illumina iff more than 80% of the names have at least six
\* colons; else PacBio iff more than 80% have exactly two '/'; else Custom
\* iff there are at least two names and the prefix shared with names[0]
\* is longer than len(names[0]) / 3 (integer division); else Unstructured.
\* Exactly 80% does not qualify and a batch over both thresholds is Illumina.
C18_DetectPatternOrder ==
    (probe.op = "analyze" /\ probe.phase \in {"pattern", "out"}) =>
      Only({ probe.pattern =
               IF n = 0 THEN "Unstructured"
               ELSE IF 5 * ColonNames(probe.names) > 4 * n THEN "Illumina"
               ELSE IF 5 * SlashNames(probe.names) > 4 * n THEN "PacBio"
               ELSE IF n >= 2 /\ SharedPrefix(probe.names) > Len(probe.names[1]) \div 3
               THEN "Custom"
               ELSE "Unstructured"
             : n \in {Len(probe.names)} })

\* a batch over both thresholds, found Illumina
C18_Witness ==
    /\ probe.op = "analyze" /\ probe.phase = "pattern"
    /\ Len(probe.names) = 10
    /\ ColonNames(probe.names) = 9
    /\ SlashNames(probe.names) = 9
    /\ probe.pattern = "Illumina"

-----------------------------------------------------------------------------
(* encoder.rs                                                              *)

I16_MIN == -32768
I16_MAX == 32767
I32_MAX == 2147483647
I32_MIN == -I32_MAX - 1

\* u32 as i32: the same 32 bits read in two's complement
AsI32(u) ==
    IF u.hi >= 32768 THEN (u.hi - 65536) * 65536 + u.lo
    ELSE u.hi * 65536 + u.lo

\* a non-negative i32 as u32
AsU32(v) == U32(v \div 65536, v % 65536)

\* a - b on i32.  When the difference does not fit, a build with overflow
\* checks panics and one without them keeps the low 32 bits.
SubI32(a, b, overflow_checks) ==
    IF b > 0 /\ a < I32_MIN + b
    THEN [panic |-> overflow_checks, v |-> ((a - I32_MIN) - b) - I32_MIN]
    ELSE IF b < 0 /\ a > I32_MAX + b
    THEN [panic |-> overflow_checks, v |-> ((a + I32_MIN) - b) + I32_MIN]
    ELSE [panic |-> FALSE, v |-> a - b]

\* a + d on i32 for an i16 d
AddI32(a, d, overflow_checks) == SubI32(a, 0 - d, overflow_checks)

\* i32::clamp(i16::MIN as i32, i16::MAX as i32) as i16
ClampI16(v) == IF v < I16_MIN THEN I16_MIN ELSE IF v > I16_MAX THEN I16_MAX ELSE v

CoordinateEncoderNew == [last_x |-> U32(0, 0), last_y |-> U32(0, 0), last_tile |-> 0]

NoDeltas == [x_delta |-> 0, y_delta |-> 0, tile_delta |-> 0]

\* an encode_coordinates that leaves the running state as it was
encode_coordinates_keep_last(enc, x, y, tile, overflow_checks) ==
    Only({ [panic |-> dx.panic \/ dy.panic,
            deltas |-> [x_delta |-> ClampI16(dx.v), y_delta |-> ClampI16(dy.v),
                        tile_delta |-> ClampI16(tile - enc.last_tile)],
            enc |-> enc]
           : dx \in {SubI32(AsI32(x), AsI32(enc.last_x), overflow_checks)},
             dy \in {SubI32(AsI32(y), AsI32(enc.last_y), overflow_checks)} })

\* encode_coordinates; a panic leaves before the running state is assigned
encode_coordinates(enc, x, y, tile, overflow_checks) ==
    Only({ IF dx.panic \/ dy.panic
           THEN [panic |-> TRUE, deltas |-> NoDeltas, enc |-> enc]
           ELSE [panic |-> FALSE,
                 deltas |-> [x_delta |-> ClampI16(dx.v), y_delta |-> ClampI16(dy.v),
                             tile_delta |-> ClampI16(tile - enc.last_tile)],
                 enc |-> [last_x |-> x, last_y |-> y, last_tile |-> tile]]
           : dx \in {SubI32(AsI32(x), AsI32(enc.last_x), overflow_checks)},
             dy \in {SubI32(AsI32(y), AsI32(enc.last_y), overflow_checks)} })

\* an i32 kept non-negative by max(0)
Max0(v) == IF v < 0 THEN 0 ELSE v

\* a decode_coordinates that takes the deltas away
decode_coordinates_subtract(enc, deltas, overflow_checks) ==
    Only({ IF sx.panic \/ sy.panic
           THEN [panic |-> TRUE, out |-> enc, enc |-> enc]
           ELSE Only({ [panic |-> FALSE, out |-> e, enc |-> e]
                       : e \in {[last_x |-> AsU32(Max0(sx.v)),
                                 last_y |-> AsU32(Max0(sy.v)),
                                 last_tile |->
                                   Max0(enc.last_tile - deltas.tile_delta) % 65536]} })
           : sx \in {SubI32(AsI32(enc.last_x), deltas.x_delta, overflow_checks)},
             sy \in {SubI32(AsI32(enc.last_y), deltas.y_delta, overflow_checks)} })

\* decode_coordinates: out is the returned (x, y, tile)
decode_coordinates(enc, deltas, overflow_checks) ==
    Only({ IF sx.panic \/ sy.panic
           THEN [panic |-> TRUE, out |-> enc, enc |-> enc]
           ELSE Only({ [panic |-> FALSE, out |-> e, enc |-> e]
                       : e \in {[last_x |-> AsU32(Max0(sx.v)),
                                 last_y |-> AsU32(Max0(sy.v)),
                                 last_tile |->
                                   Max0(enc.last_tile + deltas.tile_delta) % 65536]} })
           : sx \in {AddI32(AsI32(enc.last_x), deltas.x_delta, overflow_checks)},
             sy \in {AddI32(AsI32(enc.last_y), deltas.y_delta, overflow_checks)} })

reset(enc) == CoordinateEncoderNew

-----------------------------------------------------------------------------
(* EncSpec: encode a sequence of triples, reset, decode the deltas         *)

\* longest sequence of triples given to the encoder
MaxTriples == 2

Triple(x, y, tile) == [x |-> x, y |-> y, tile |-> tile]

\* (0,0,0), (1,1,1), (1000,2000,1101), (1005,1995,1101),
\* (32767,32767,32767), (40000,1,65535), (2^31,0,0), (u32::MAX,u32::MAX,u16::MAX)
SampleTriples ==
    { Triple(U32(0, 0), U32(0, 0), 0),
      Triple(U32(0, 1), U32(0, 1), 1),
      Triple(U32(0, 1000), U32(0, 2000), 1101),
      Triple(U32(0, 1005), U32(0, 1995), 1101),
      Triple(U32(0, 32767), U32(0, 32767), 32767),
      Triple(U32(0, 40000), U32(0, 1), 65535),
      Triple(U32(32768, 0), U32(0, 0), 0),
      Triple(U32(65535, 65535), U32(65535, 65535), 65535) }

SampleTripleSeqs == UNION { [1..n -> SampleTriples] : n \in 1..MaxTriples }

\* overflow_checks is the build's setting, the same for every call
EncInit ==
    /\ PipeIdle
    /\ \E ts \in SampleTripleSeqs, overflow_checks \in BOOLEAN :
          probe = [op |-> "enc", phase |-> "encode", triples |-> ts,
                   overflow_checks |-> overflow_checks,
                   enc |-> CoordinateEncoderNew, before |-> CoordinateEncoderNew,
                   deltas |-> <<>>, decoded |-> <<>>]

\* encode_coordinates on the next triple
EncodeCoordinates ==
    /\ probe.op = "enc" /\ probe.phase = "encode"
    /\ Len(probe.deltas) < Len(probe.triples)
    /\ probe' =
         Only({ IF r.panic THEN [probe EXCEPT !.phase = "panicked"]
                ELSE [probe EXCEPT !.enc = r.enc, !.before = probe.enc,
                                   !.deltas = Append(@, r.deltas)]
                : r \in {Only({ encode_coordinates(probe.enc, t.x, t.y, t.tile,
                                                   probe.overflow_checks)
                                : t \in {probe.triples[Len(probe.deltas) + 1]} })} })
    /\ UNCHANGED pipeVars

\* reset() once every triple is encoded
Reset ==
    /\ probe.op = "enc" /\ probe.phase = "encode"
    /\ Len(probe.deltas) = Len(probe.triples)
    /\ probe' = [probe EXCEPT !.phase = "decode", !.enc = reset(probe.enc)]
    /\ UNCHANGED pipeVars

\* decode_coordinates on the next delta
DecodeCoordinates ==
    /\ probe.op = "enc" /\ probe.phase = "decode"
    /\ Len(probe.decoded) < Len(probe.deltas)
    /\ probe' =
         Only({ IF r.panic THEN [probe EXCEPT !.phase = "panicked"]
                ELSE [probe EXCEPT !.enc = r.enc,
                        !.decoded = Append(@, Triple(r.out.last_x, r.out.last_y,
                                                     r.out.last_tile))]
                : r \in {decode_coordinates(probe.enc,
                                            probe.deltas[Len(probe.decoded) + 1],
                                            probe.overflow_checks)} })
    /\ UNCHANGED pipeVars

EncNext == EncodeCoordinates \/ Reset \/ DecodeCoordinates

EncSpec == EncInit /\ [][EncNext]_vars

\* new - last on u32 values as an integer, clamped into i16: the halves
\* decide alone when they differ by two or more
TrueDeltaU32(new, last) ==
    IF new.hi - last.hi >= 2 THEN I16_MAX
    ELSE IF new.hi - last.hi <= -2 THEN I16_MIN
    ELSE ClampI16((new.hi - last.hi) * 65536 + (new.lo - last.lo))

\* C19: every encode_coordinates call returns, per component, the integer
\* difference new - last clamped into [i16::MIN, i16::MAX]; so
\* (u32::MAX, u32::MAX, u16::MAX) from the zero state gives i16::MAX thrice.
C19_EncodeClampsTrueDifference ==
    (probe.op = "enc" /\ probe.phase = "encode" /\ Len(probe.deltas) >= 1) =>
      Only({ /\ d.x_delta = TrueDeltaU32(t.x, probe.before.last_x)
             /\ d.y_delta = TrueDeltaU32(t.y, probe.before.last_y)
             /\ d.tile_delta = ClampI16(t.tile - probe.before.last_tile)
             : d \in {probe.deltas[Len(probe.deltas)]},
               t \in {probe.triples[Len(probe.deltas)]} })

\* every value of every triple is within [0, i16::MAX]
InI16Range(ts) ==
    \A k \in 1..Len(ts) :
      /\ ts[k].x.hi = 0 /\ ts[k].x.lo <= I16_MAX
      /\ ts[k].y.hi = 0 /\ ts[k].y.lo <= I16_MAX
      /\ ts[k].tile <= I16_MAX

\* C20: for triples with all values in [0, i16::MAX], encoding them from
\* the zero state, reset(), and decoding the deltas in order gives back
\* every triple; no call panics on the way.
C20_RoundTrip ==
    (probe.op = "enc" /\ InI16Range(probe.triples)) =>
      /\ probe.phase # "panicked"
      /\ \A k \in 1..Len(probe.decoded) : probe.decoded[k] = probe.triples[k]

\* two triples encoded and decoded, the second below the first so that
\* the deltas are negative
C20_Witness ==
    /\ probe.op = "enc" /\ probe.phase = "decode"
    /\ InI16Range(probe.triples)
    /\ Len(probe.triples) = 2 /\ Len(probe.decoded) = 2
    /\ probe.deltas[1].x_delta = I16_MAX
    /\ probe.deltas[2].x_delta < 0 /\ probe.deltas[2].tile_delta < 0

-----------------------------------------------------------------------------
(* PartSpec: the read-name partition of a block                            *)

\* longest data buffer
MaxData == 4

\* NUL, "A", "B"
DataBytes == {NUL, 65, 66}

SampleBuffers == UNION { [1..n -> DataBytes] : n \in 0..MaxData }

PartInit ==
    /\ PipeIdle
    /\ \E data \in SampleBuffers : \E uncompr_size \in 0..Len(data) :
          probe = [op |-> "partition", phase |-> "in", data |-> data,
                   uncompr_size |-> uncompr_size, read_name_refs |-> <<>>]

\* the while loop over data[0..uncompr_size) in the task closure
Partition ==
    /\ probe.op = "partition" /\ probe.phase = "in"
    /\ probe' = [probe EXCEPT !.phase = "out",
                   !.read_name_refs =
                       PartitionFrom(probe.data, probe.uncompr_size, 0, <<>>)]
    /\ UNCHANGED pipeVars

PartNext == Partition

PartSpec == PartInit /\ [][PartNext]_vars

\* the maximal NUL-free segments of d, as pairs of first and last position
Segments(d) ==
    { ab \in (1..Len(d)) \X (1..Len(d)) :
        /\ ab[1] <= ab[2]
        /\ \A k \in ab[1]..ab[2] : d[k] # NUL
        /\ ab[1] = 1 \/ d[ab[1] - 1] = NUL
        /\ ab[2] = Len(d) \/ d[ab[2] + 1] = NUL }

\* the k-th segment from the left
NthSegment(segs, k) ==
    CHOOSE ab \in segs : Cardinality({cd \in segs : cd[1] < ab[1]}) = k - 1

\* C23: the read-name partition is, in order, the non-empty maximal
\* NUL-free segments of data[0..uncompr_size): empty segments are dropped,
\* a last segment without NUL is included, no reference is empty and no
\* byte at or beyond uncompr_size is in a read name.
C23_PartitionIsSegments ==
    (probe.op = "partition" /\ probe.phase = "out") =>
      Only({ /\ Len(probe.read_name_refs) = Cardinality(segs)
             /\ \A k \in 1..Len(probe.read_name_refs) :
                   /\ probe.read_name_refs[k] # <<>>
                   /\ probe.read_name_refs[k] =
                        Only({ SubSeq(d, ab[1], ab[2])
                               : ab \in {NthSegment(segs, k)} })
             : d \in {SubSeq(probe.data, 1, probe.uncompr_size)},
               segs \in {Segments(SubSeq(probe.data, 1, probe.uncompr_size))} })

\* a block with an empty segment, a last name without NUL, and a
\* non-NUL byte beyond uncompr_size
C23_Witness ==
    /\ probe.op = "partition" /\ probe.phase = "out"
    /\ probe.data = <<NUL, NUL, 65, 66>>
    /\ probe.uncompr_size = 3
    /\ probe.read_name_refs = << <<65>> >>

-----------------------------------------------------------------------------
(* post_compression.rs: zig-zag varint                                     *)

\* the 32 bits of an i32 as two 16-bit halves
BitsOfI32(v) == U32((v \div 65536) % 65536, v % 65536)

\* value << 1 on 32 bits
Shl1(u) == U32((u.hi * 2 + u.lo \div 32768) % 65536, (u.lo * 2) % 65536)

\* the bits of value >> 31 (arithmetic): all ones for a negative value
SignBits(v) == IF v < 0 THEN U32(65535, 65535) ELSE U32(0, 0)

\* bitwise xor of 16-bit halves, bit by bit
RECURSIVE Xor16(_, _, _)
Xor16(a, b, n) ==
    IF n = 0 THEN 0
    ELSE ((a + b) % 2) + 2 * Xor16(a \div 2, b \div 2, n - 1)

Xor32(a, b) == U32(Xor16(a.hi, b.hi, 16), Xor16(a.lo, b.lo, 16))

\* ((value << 1) ^ (value >> 31)) as u32
ZigZag(value) == Xor32(Shl1(BitsOfI32(value)), SignBits(value))

RECURSIVE Leb128(_)
\* the while loop of encode_varint and the last push
Leb128(uvalue) ==
    IF uvalue.hi > 0 \/ uvalue.lo >= 128
    THEN <<(uvalue.lo % 128) + 128>>
         \o Leb128(U32(uvalue.hi \div 128,
                       uvalue.lo \div 128 + (uvalue.hi % 128) * 512))
    ELSE <<uvalue.lo % 256>>

\* an encode_varint without the zig-zag step
encode_varint_no_zigzag(value) == Leb128(BitsOfI32(value))

encode_varint(value) == Leb128(ZigZag(value))

-----------------------------------------------------------------------------
(* VarintSpec: encode_varint on sampled i32 values                         *)

\* values around zero are sampled densely, up to this magnitude
MaxSmall == 300

\* the values at which the zig-zag code changes its length, and the ends
\* of i32
VarintEdges ==
    {63, 64, 8191, 8192, 1048575, 1048576, 134217727, 134217728, I32_MAX}

SampleI32 ==
    (-MaxSmall..MaxSmall) \cup VarintEdges \cup {-e - 1 : e \in VarintEdges}
    \cup {-e : e \in VarintEdges}

VarintInit ==
    /\ PipeIdle
    /\ \E value \in SampleI32 :
          probe = [op |-> "varint", phase |-> "in", value |-> value,
                   encoded |-> <<>>]

EncodeVarint ==
    /\ probe.op = "varint" /\ probe.phase = "in"
    /\ probe' = [probe EXCEPT !.phase = "out",
                   !.encoded = encode_varint(probe.value)]
    /\ UNCHANGED pipeVars

VarintNext == EncodeVarint

VarintSpec == VarintInit /\ [][VarintNext]_vars

RECURSIVE Leb128Value(_, _)
\* LEB128 decoding: the 7 payload bits of the i-th byte at bit 7 * (i - 1),
\* as the two halves of a u32
Leb128Value(bytes, i) ==
    IF i > Len(bytes) THEN U32(0, 0)
    ELSE Only({ CASE i = 1 -> U32(rest.hi, rest.lo + p)
                  [] i = 2 -> U32(rest.hi, rest.lo + p * 128)
                  [] i = 3 -> U32(rest.hi + p \div 4, rest.lo + (p % 4) * 16384)
                  [] i = 4 -> U32(rest.hi + p * 32, rest.lo)
                  [] i = 5 -> U32(rest.hi + (p % 16) * 4096, rest.lo)
                  [] OTHER -> rest
                : p \in {bytes[i] % 128}, rest \in {Leb128Value(bytes, i + 1)} })

\* the inverse of the zig-zag map: u / 2 for even u, -(u + 1) / 2 for odd u
UnZigZag(u) ==
    IF u.lo % 2 = 0 THEN u.hi * 32768 + u.lo \div 2
    ELSE -(u.hi * 32768 + u.lo \div 2) - 1

\* C25: encode_varint(v) is 1 to 5 bytes long, every byte but the last
\* has its top bit set and the last has it clear, and LEB128 decoding
\* followed by the inverse zig-zag map gives v back.
C25_VarintRoundTrip ==
    (probe.op = "varint" /\ probe.phase = "out") =>
      Only({ /\ Len(e) \in 1..5
             /\ \A i \in 1..(Len(e) - 1) : e[i] \in 128..255
             /\ e[Len(e)] \in 0..127
             /\ UnZigZag(Leb128Value(e, 1)) = probe.value
             : e \in {probe.encoded} })

\* i32::MIN, whose zig-zag image is u32::MAX, is encoded in five bytes
C25_Witness ==
    /\ probe.op = "varint" /\ probe.phase = "out"
    /\ probe.value = I32_MIN
    /\ probe.encoded = <<255, 255, 255, 255, 15>>

-----------------------------------------------------------------------------
(* post_compression.rs: run-length stage of the categorical streams        *)

\* PostTokenizationConfig::default: use_rle
use_rle == TRUE

\* the benefit as the fraction num / den; 0.0 is 0 / 1
Fraction(num, den) == [num |-> num, den |-> den]

\* rle_threshold 0.2: num / den > 0.2 in f64 is 5 * num > den for the
\* lengths a stream can have (num / den = 1/5 rounds to the literal 0.2)
AboveRleThreshold(f) == 5 * f.num > f.den

RECURSIVE RunScan(_, _, _, _, _)
\* the for loop of calculate_rle_benefit and the flush after it
RunScan(data, i, runs, total_run_length, current_run) ==
    IF i > Len(data)
    THEN IF current_run >= 3
         THEN [runs |-> runs + 1, total |-> total_run_length + current_run]
         ELSE [runs |-> runs, total |-> total_run_length]
    ELSE IF data[i] = data[i - 1]
         THEN RunScan(data, i + 1, runs, total_run_length, current_run + 1)
         ELSE IF current_run >= 3
              THEN RunScan(data, i + 1, runs + 1,
                           total_run_length + current_run, 1)
              ELSE RunScan(data, i + 1, runs, total_run_length, 1)

\* usize::saturating_sub
SaturatingSub(a, b) == IF a >= b THEN a - b ELSE 0

\* a calculate_rle_benefit without the short-stream return
calculate_rle_benefit_any_length(data) ==
    Only({ Fraction(SaturatingSub(r.total, r.runs * 2), Len(data))
           : r \in {RunScan(data, 2, 0, 0, 1)} })

calculate_rle_benefit(data) ==
    IF Len(data) < 10 THEN Fraction(0, 1)
    ELSE Only({ Fraction(SaturatingSub(r.total, r.runs * 2), Len(data))
                : r \in {RunScan(data, 2, 0, 0, 1)} })

RECURSIVE RleFrom(_, _, _, _)
\* the loop of run_length_encode; count stays far below u32::MAX
RleFrom(data, i, current, count) ==
    IF i > Len(data) THEN encode_varint(count) \o <<current>>
    ELSE IF data[i] = current
         THEN RleFrom(data, i + 1, current, count + 1)
         ELSE encode_varint(count) \o <<current>> \o RleFrom(data, i + 1, data[i], 1)

run_length_encode(data) ==
    IF data = <<>> THEN <<>> ELSE RleFrom(data, 2, data[1], 1)

\* stage 1 of compress_categorical_stream
rle_stage(data) ==
    Only({ IF use_rle /\ AboveRleThreshold(b)
           THEN [benefit |-> b, rle_applied |-> TRUE,
                 working_data |-> run_length_encode(data)]
           ELSE [benefit |-> b, rle_applied |-> FALSE, working_data |-> data]
           : b \in {calculate_rle_benefit(data)} })

-----------------------------------------------------------------------------
(* RleSpec: the run-length stage on short categorical streams              *)

MaxStream == 11

StreamBytes == {65, 66}

SampleStreams ==
    UNION { [1..n -> StreamBytes] : n \in 1..MaxStream }

RleInit ==
    /\ PipeIdle
    /\ \E data \in SampleStreams :
          probe = [op |-> "rle", phase |-> "in", data |-> data,
                   out |-> rle_stage(<<>>)]

CompressCategoricalStream ==
    /\ probe.op = "rle" /\ probe.phase = "in"
    /\ probe' = [probe EXCEPT !.phase = "out", !.out = rle_stage(probe.data)]
    /\ UNCHANGED pipeVars

RleNext == CompressCategoricalStream

RleSpec == RleInit /\ [][RleNext]_vars

\* the positions of data that lie in a run of at least three equal bytes
InLongRun(data) ==
    { k \in 1..Len(data) :
        \E i \in 1..k : \E j \in k..Len(data) :
            j - i >= 2 /\ \A m \in i..j : data[m] = data[k] }

\* the first positions of the maximal runs of at least three equal bytes
LongRunStarts(data) ==
    { i \in 1..(Len(data) - 2) :
        /\ i = 1 \/ data[i - 1] # data[i]
        /\ data[i + 1] = data[i] /\ data[i + 2] = data[i] }

\* sum of the lengths of the long maximal runs minus 2 for each of them
RunSavings(data) ==
    Cardinality(InLongRun(data)) - 2 * Cardinality(LongRunStarts(data))

\* C24 (as stated): for a stream of any length N >= 1 the benefit is
\* RunSavings / N and RLE is applied iff that is greater than 0.2.
C24_RleBenefitAnyLength ==
    (probe.op = "rle" /\ probe.phase = "out") =>
      /\ probe.out.benefit.num * Len(probe.data)
           = RunSavings(probe.data) * probe.out.benefit.den
      /\ probe.out.rle_applied <=> 5 * RunSavings(probe.data) > Len(probe.data)

\* C24 (amended): for a stream of length N >= 10 the benefit is
\* RunSavings / N and RLE is applied iff that is greater than 0.2; for a
\* stream shorter than 10 bytes the benefit is 0 and RLE is not applied.
C24_RleBenefit ==
    (probe.op = "rle" /\ probe.phase = "out") =>
      IF Len(probe.data) >= 10
      THEN /\ probe.out.benefit.num * Len(probe.data)
                = RunSavings(probe.data) * probe.out.benefit.den
           /\ probe.out.rle_applied
                <=> 5 * RunSavings(probe.data) > Len(probe.data)
           /\ probe.out.rle_applied
                => probe.out.working_data = run_length_encode(probe.data)
      ELSE /\ probe.out.benefit.num = 0
           /\ ~probe.out.rle_applied
           /\ probe.out.working_data = probe.data

\* ten bytes with one run of five: benefit 3/10, run-length encoded
C24_Witness ==
    /\ probe.op = "rle" /\ probe.phase = "out"
    /\ probe.data = <<65, 65, 65, 65, 65, 66, 65, 66, 65, 66>>
    /\ probe.out.benefit = Fraction(3, 10)
    /\ probe.out.rle_applied
    /\ probe.out.working_data = <<10, 65, 2, 66, 2, 65, 2, 66, 2, 65, 2, 66>>

-----------------------------------------------------------------------------
(* post_compression.rs: delta stages of the numeric and coordinate streams *)

\* PostTokenizationConfig::default: use_delta_encoding
use_delta_encoding == TRUE

\* a - b does not fit in an i32
SubOverflows(a, b) ==
    \/ b > 0 /\ a < I32_MIN + b
    \/ b < 0 /\ a > I32_MAX + b

\* the outcome of a delta stage: panic in a build with overflow checks,
\* wrapped when a difference was reduced modulo 2^32, and the output
DeltaOutcome(panic, wrapped, out) ==
    [panic |-> panic, wrapped |-> wrapped, out |-> IF panic THEN <<>> ELSE out]

RECURSIVE DeltaFrom(_, _, _)
\* the for loop of delta_encode_with_varint:
\* delta = data[i] as i32 - data[i-1] as i32
DeltaFrom(data, i, overflow_checks) ==
    IF i > Len(data) THEN DeltaOutcome(FALSE, FALSE, <<>>)
    ELSE Only({ IF delta.panic THEN DeltaOutcome(TRUE, FALSE, <<>>)
                ELSE DeltaOutcome(
                       rest.panic,
                       rest.wrapped
                         \/ SubOverflows(AsI32(data[i]), AsI32(data[i - 1])),
                       encode_varint(delta.v) \o rest.out)
                : delta \in {SubI32(AsI32(data[i]), AsI32(data[i - 1]),
                                    overflow_checks)},
                  rest \in {DeltaFrom(data, i + 1, overflow_checks)} })

delta_encode_with_varint(data, overflow_checks) ==
    Only({ DeltaOutcome(rest.panic, rest.wrapped,
                        encode_varint(AsI32(data[1])) \o rest.out)
           : rest \in {DeltaFrom(data, 2, overflow_checks)} })

RECURSIVE direct_varint_encode(_)
direct_varint_encode(data) ==
    IF data = <<>> THEN <<>>
    ELSE encode_varint(AsI32(Head(data))) \o direct_varint_encode(Tail(data))

\* stage 1 of compress_numeric_stream
numeric_stage(data, overflow_checks) ==
    IF use_delta_encoding /\ Len(data) > 1
    THEN delta_encode_with_varint(data, overflow_checks)
    ELSE DeltaOutcome(FALSE, FALSE, direct_varint_encode(data))

RECURSIVE Deltas2dFrom(_, _, _, _, _, _, _, _)
\* the for loop of encode_2d_deltas with the interleaved varints of
\* compress_coordinate_streams; a tile difference of two u16 always fits
Deltas2dFrom(x_coords, y_coords, tiles, i, last_x, last_y, last_tile, overflow_checks) ==
    IF i > Len(x_coords) THEN DeltaOutcome(FALSE, FALSE, <<>>)
    ELSE Only({ IF dx.panic \/ dy.panic THEN DeltaOutcome(TRUE, FALSE, <<>>)
                ELSE DeltaOutcome(
                       rest.panic,
                       \/ rest.wrapped
                       \/ SubOverflows(AsI32(x_coords[i]), AsI32(last_x))
                       \/ SubOverflows(AsI32(y_coords[i]), AsI32(last_y)),
                       encode_varint(dx.v) \o encode_varint(dy.v)
                         \o encode_varint(tiles[i] - last_tile) \o rest.out)
                : dx \in {SubI32(AsI32(x_coords[i]), AsI32(last_x),
                                 overflow_checks)},
                  dy \in {SubI32(AsI32(y_coords[i]), AsI32(last_y),
                                 overflow_checks)},
                  rest \in {Deltas2dFrom(x_coords, y_coords, tiles, i + 1,
                                         x_coords[i], y_coords[i], tiles[i],
                                         overflow_checks)} })

\* stages 1 and 2 of compress_coordinate_streams
coordinate_stage(x_coords, y_coords, tiles, overflow_checks) ==
    Deltas2dFrom(x_coords, y_coords, tiles, 1, U32(0, 0), U32(0, 0), 0,
                 overflow_checks)

-----------------------------------------------------------------------------
(* DeltaSpec: the delta stages on short streams of u32 values              *)

MaxRecords == 2

\* 0, 1, i32::MAX, 2^31 and u32::MAX
SampleU32 ==
    {U32(0, 0), U32(0, 1), U32(32767, 65535), U32(32768, 0), U32(65535, 65535)}

SampleTiles == {0, 65535}

DeltaInit ==
    /\ PipeIdle
    /\ \E n \in 1..MaxRecords :
         \E run_ids \in [1..n -> SampleU32] :
          \E y_coords \in [1..n -> {U32(0, 0), U32(65535, 65535)}] :
           \E tiles \in [1..n -> SampleTiles] :
            \E overflow_checks \in BOOLEAN :
              probe = [op |-> "delta", phase |-> "in", run_ids |-> run_ids,
                       x_coords |-> run_ids, y_coords |-> y_coords,
                       tiles |-> tiles, overflow_checks |-> overflow_checks,
                       out |-> DeltaOutcome(FALSE, FALSE, <<>>)]

CompressNumericStream ==
    /\ probe.op = "delta" /\ probe.phase = "in"
    /\ probe' = [probe EXCEPT !.phase = "numeric",
                   !.out = numeric_stage(probe.run_ids, probe.overflow_checks)]
    /\ UNCHANGED pipeVars

CompressCoordinateStreams ==
    /\ probe.op = "delta" /\ probe.phase = "in"
    /\ probe' = [probe EXCEPT !.phase = "coordinates",
                   !.out = coordinate_stage(probe.x_coords, probe.y_coords,
                                            probe.tiles, probe.overflow_checks)]
    /\ UNCHANGED pipeVars

DeltaNext == CompressNumericStream \/ CompressCoordinateStreams

DeltaSpec == DeltaInit /\ [][DeltaNext]_vars

\* C30: for all u32 run_ids and x/y coordinates the delta stages neither
\* panic nor wrap a difference.
C30_DeltasNeverOverflow ==
    (probe.op = "delta" /\ probe.phase \in {"numeric", "coordinates"}) =>
      ~probe.out.panic /\ ~probe.out.wrapped

-----------------------------------------------------------------------------
(* MarkerSpec: tokenize_single on a filled dictionary, then the token as   *)
(* the fallback envelope writes it                                         *)

\* names with and without UMI and index, of both formats:
\*   "A:7:FC:1:30:56:90"
\*   "A:7:FC:1:30:56:90:ACG:1:N:GT"
\*   "A:7:FC:1:30:56:90:AC:1:N"
\*   "A:7:FC:1:30:56:90::1:N:GTA"
\*   "M1:2:30:56:90#GT|ACG"
\*   "M1:2:30:56:90#|ACG"
\*   "M1:2:30:56:90#GT"
\*   "M1:2:30:56:90"
MarkerNames ==
    {
      <<65, 58, 55, 58, 70, 67, 58, 49, 58, 51, 48, 58, 53, 54, 58, 57, 48>>,
      <<65, 58, 55, 58, 70, 67, 58, 49, 58, 51, 48, 58, 53, 54, 58, 57, 48, 58, 65, 67, 71, 58, 49, 58, 78, 58, 71, 84>>,
      <<65, 58, 55, 58, 70, 67, 58, 49, 58, 51, 48, 58, 53, 54, 58, 57, 48, 58, 65, 67, 58, 49, 58, 78>>,
      <<65, 58, 55, 58, 70, 67, 58, 49, 58, 51, 48, 58, 53, 54, 58, 57, 48, 58, 58, 49, 58, 78, 58, 71, 84, 65>>,
      <<77, 49, 58, 50, 58, 51, 48, 58, 53, 54, 58, 57, 48, 35, 71, 84, 124, 65, 67, 71>>,
      <<77, 49, 58, 50, 58, 51, 48, 58, 53, 54, 58, 57, 48, 35, 124, 65, 67, 71>>,
      <<77, 49, 58, 50, 58, 51, 48, 58, 53, 54, 58, 57, 48, 35, 71, 84>>,
      <<77, 49, 58, 50, 58, 51, 48, 58, 53, 54, 58, 57, 48>> }

MarkerInit ==
    /\ PipeIdle
    /\ \E lv \in FillLevels : \E name \in MarkerNames :
          probe = [op |-> "marker", phase |-> "in", name |-> name,
                   dict |-> FilledDict(lv[1], lv[2]), ok |-> FALSE,
                   tok |-> NoToken, bytes |-> <<>>]

\* tokenize_single(name) on the tokenizer that owns the dictionary
TokenizeOnDictionary ==
    /\ probe.op = "marker" /\ probe.phase = "in"
    /\ probe' = Only({ [probe EXCEPT !.phase = "token", !.dict = r.dict,
                                     !.ok = r.ok, !.tok = r.tok]
                       : r \in {tokenize_single(probe.dict, probe.name)} })
    /\ UNCHANGED pipeVars

\* the body of the loop over the tokens in the fallback branch
SerializeOneToken ==
    /\ probe.op = "marker" /\ probe.phase = "token" /\ probe.ok
    /\ probe' = [probe EXCEPT !.phase = "bytes",
                              !.bytes = SerializeToken(probe.tok)]
    /\ UNCHANGED pipeVars

MarkerNext == TokenizeOnDictionary \/ SerializeOneToken

MarkerSpec == MarkerInit /\ [][MarkerNext]_vars

\* the two bytes written for umi_id and the byte written for index_id:
\* they follow instrument_id, run_id, flowcell_id, lane, tile, x and y,
\* and read_num and flags stand between them
UmiBytes(bytes) == SubSeq(bytes, Len(bytes) - 4, Len(bytes) - 3)
IndexByte(bytes) == bytes[Len(bytes)]

\* C29: a present umi_id of a token is at most 65534 and a present
\* index_id at most 254, so the envelope holds 0xFFFF or 0xFF exactly when
\* the UMI or the index is absent.
C29_AbsentMarkersDistinct ==
    (probe.op = "marker" /\ probe.phase \in {"token", "bytes"} /\ probe.ok) =>
      /\ probe.tok.umi_id.some => probe.tok.umi_id.v <= ABSENT_UMI - 1
      /\ probe.tok.index_id.some => probe.tok.index_id.v <= ABSENT_INDEX - 1
      /\ probe.phase = "bytes" =>
            /\ Len(probe.bytes) = Len(SerializeToken(NoToken))
            /\ UmiBytes(probe.bytes) = LE16(ABSENT_UMI)
                  <=> ~probe.tok.umi_id.some
            /\ IndexByte(probe.bytes) = ABSENT_INDEX
                  <=> ~probe.tok.index_id.some

\* a new UMI and a new index on full tables: both get the sink id, one
\* below the marker
C29_Witness ==
    /\ probe.op = "marker" /\ probe.phase = "bytes"
    /\ Len(probe.dict.umis) = UMI_TABLE_CAP
    /\ probe.tok.umi_id = Some(UMI_TABLE_SINK)
    /\ UmiBytes(probe.bytes) = <<254, 255>>

\* a new index on a full index table gets the sink id 254
C29_WitnessIndex ==
    /\ probe.op = "marker" /\ probe.phase = "bytes"
    /\ Len(probe.dict.indices) = U8_TABLE_CAP
    /\ probe.tok.index_id = Some(U8_TABLE_SINK)
    /\ IndexByte(probe.bytes) = 254

=============================================================================
